---- MODULE Spec2Model ----
(***************************************************************************)
(* Verification model of the trading engine:                               *)
(*   - the smart order router (app/nodes/execution_agent.py) driving a     *)
(*     TradingProvider (app/tools/binance_tool.py, alpaca_tool.py);        *)
(*   - the resilience layer (app/utils/resilience.py);                     *)
(*   - construction of a Signal (app/schemas/models.py).                   *)
(* Each subsystem has its own specification over the shared variables.     *)
(***************************************************************************)
EXTENDS Integers, Sequences, FiniteSets, TLC

(***************************************************************************)
(* Bounds of the model.                                                    *)
(***************************************************************************)
\* quantity of the parent order; fills are 0..OrderQty
OrderQty == 2

\* Python None of an Optional[float] field
NoneV == -1

\* Python truthiness of an Optional[float]: None and 0.0 are falsy
Truthy(x) == x # NoneV /\ x # 0

\* range(5) of the poll loop
PollAttempts == 5

\* CircuitBreaker.__init__ default
failure_threshold == 5

\* settings.MAX_RETRIES
MAX_RETRIES == 3

\* recovery_timeout of the breaker, in ticks of the model's clock
recovery_timeout == 1

\* the clock stops here
MaxTime == 3

\* no new wrapped call begins once the failure count is this high
MaxFailures == 6

\* quantities are counted in thousandths of a unit (0.001)
QtyScale == 1000

\* the FIXED default size 0.01, in thousandths
FixedDefault == 10

\* RiskLimits.max_daily_loss default, in dollars
max_daily_loss == 1000

\* RiskLimits.max_leverage default
max_leverage == 1

\* settings.risk_per_trade_percent is 1 / RiskPerTradeDen
RiskPerTradeDen == 100

\* settings.atr_stop_multiplier
atr_stop_multiplier == 2

\* RiskLimits.target_volatility / 16.0 = 0.0125, in units of 1/1600
TargetVolDaily == 20

\* portfolio.equity, in dollars
Equity == 10000

\* quantity of every open position, in thousandths
PosQty == 30

\* most positions a portfolio holds
MaxPositions == 2

\* most signals handed to risk_management_node in one call
MaxSignals == 2

\* calls of save_state that are explored
MaxSaves == 2

\* number of write calls json.dump makes for one state
ChunkCount == 2

\* the distinct states that are saved
MaxStateValue == 2

\* a position of 1.0 in the hedge agent's portfolio, in ten-thousandths
HedgeQty == 10000

\* the hedge threshold 0.0001, in ten-thousandths
HedgeThreshold == 1

VARIABLES
    \* ---- execution engine ----
    provider,      \* settings.trading_provider
    order,         \* the Order handed to the engine (order_type is mutable)
    pc,            \* position in safe_execute_order / smart_execute_order
    price,         \* local `price` of smart_execute_order
    result,        \* local `result`: what safe_execute_order(limit_order) returned
    i,             \* number of iterations of the poll loop done
    calls,         \* provider calls made so far, in order
    ret,           \* the ExecutionResult handed back (pc = "done")
    raisedAt,      \* the call whose exception left the function (pc = "raised")
    wd,            \* watchdog of the last step: "none", "placed" or "failed"
    parentOut,     \* provider's answer about the parent order in the last step
    stepOut,       \* what the last step's call yielded to smart_execute_order
    sawFilled,     \* the poll of the loop that was answered FILLED (0: none)
    unfilled,      \* polls of the loop answered with another status
    cancelOut,     \* outcome of cancel_order
    recheckOut,    \* outcome of the status re-check after a cancel error
    obFailed,      \* the get_orderbook call raised
    \* ---- resilience layer ----
    cbState,       \* api_circuit_breaker.state
    failures,      \* api_circuit_breaker.failures
    last_failure_time, \* api_circuit_breaker.last_failure_time
    now,           \* time.time()
    cpc,           \* per caller: position in api_retry_policy's wrapper
    attempt,       \* per caller: invocations of the function in its latest call
    lastEnd,       \* per caller: how its latest wrapped call ended
    consec,        \* wrapped calls in a row that ended with retries exhausted
    afterTrip,     \* per caller: its latest call began with consec at the
                   \* threshold and recovery_timeout not elapsed
    openElapsed,   \* per caller: its latest call began with the breaker OPEN
                   \* and more than recovery_timeout since the last failure
    startedBlocked,\* per caller: an invocation of its latest call started
                   \* with the breaker OPEN and recovery_timeout not elapsed
    nfail,         \* per caller: invocations of its latest call that raised
                   \* a retryable exception
    recorded,      \* per caller: record_failure calls made by its latest call
    lastRaised,    \* per caller: what its latest invocation raised
    propagated,    \* per caller: the exception that left its latest call
    \* ---- Signal construction ----
    sigIn,         \* the arguments given to Signal(...)
    sigOut,        \* "pending", "ok" or "ValidationError"
    \* ---- risk manager ----
    rin,           \* risk_limits, features, the portfolio and settings of the call
    rpc,           \* position in risk_management_node
    fetch,         \* "ok": the portfolio came with the state or from the
                   \* provider; "failed": get_portfolio_state raised
    nsig,          \* signals of the list processed so far
    lastSig,       \* the signal of the last loop iteration
    lastOrder,     \* the order that iteration appended (NoApproved: none)
    approved_orders, \* local approved_orders; the returned list when rpc = "done"
    \* ---- hedge agent ----
    hin,           \* the state given to hedge_agent_node: portfolio, signals
    hout,          \* "pending", "returned" or "ValidationError" (raised)
    hret,          \* the signals of the returned state
    \* ---- momentum strategy and trading loop ----
    mfeat,         \* state["features"] given to momentum_strategy_node
    mprev,         \* state["signal"] given to momentum_strategy_node
    mpc,           \* "loop", "node", "returned" or "ValidationError"
    msig,          \* the signal of the returned state["signals"]
    miter,         \* local `iteration` of run_trading_loop
    mlast,         \* direction the node emitted in the previous iteration
    iter_duration, \* "unbound" until an iteration assigns the local iter_duration
    lstop,         \* "running", or why run_trading_loop left its while loop
    \* ---- mean-reversion strategy ----
    mrin,          \* features and klines given to mean_reversion_strategy_node
    mrpc,          \* "node", "returned" or "ValidationError" (raised)
    mrout,         \* the signal of the returned state and the key it is under
    \* ---- feature engine ----
    engine,        \* the global feature_engine: buffer lengths and attributes
    ffeat,         \* state["features"] returned by the last tick
    fsteps,        \* calls made on the engine so far
    fin            \* the last call: its kind, its order book, and the
,                  \* engine's prev_orderbook when it started
    \* ---- execution_agent_node ----
    approved,      \* state["approved_orders"]
    bpc,           \* "start", "awaiting", "loop" or "returned"
    bidx,          \* orders the for loop has taken so far
    execution_results, \* local execution_results; returned when bpc = "returned"
    blog,          \* executor calls started, in order
    bout,          \* what each finished executor call did (result or raise)
    \* ---- StateManager: save_state and load_state of one key ----
    fs,            \* content of every file created so far, by inode
    paths,         \* the directory: path -> inode, 0 when the path is absent
    spc,           \* position of save_state
    sdata,         \* the state save_state was called with
    sfd,           \* inode save_state has open for writing
    sret,          \* what the last save_state returned
    sprev,         \* inode and content of the target when save_state began
    saves,         \* calls of save_state so far
    lpc,           \* position of load_state
    lfd,           \* inode load_state has open for reading
    lret,          \* <<what load_state returned>>, <<>> while it runs
    lseen          \* states the target held, complete, while load_state ran

execVars == <<provider, order, pc, price, result, i, calls, ret, raisedAt, wd,
              parentOut, stepOut, sawFilled, unfilled, cancelOut, recheckOut, obFailed>>

cbVars == <<cbState, failures, last_failure_time, now, cpc, attempt, lastEnd,
            consec, afterTrip, openElapsed, startedBlocked, nfail, recorded,
            lastRaised, propagated>>

sigVars == <<sigIn, sigOut>>

riskVars == <<rin, rpc, fetch, nsig, lastSig, lastOrder, approved_orders>>

hedgeVars == <<hin, hout, hret>>

momVars == <<mfeat, mprev, mpc, msig, miter, mlast, iter_duration, lstop>>

mrVars == <<mrin, mrpc, mrout>>

featVars == <<engine, ffeat, fsteps, fin>>

batchVars == <<approved, bpc, bidx, execution_results, blog, bout>>

persistVars == <<fs, paths, spc, sdata, sfd, sret, sprev, saves, lpc, lfd,
                 lret, lseen>>

vars == <<execVars, cbVars, sigVars, riskVars, hedgeVars, momVars, mrVars,
          featVars, batchVars, persistVars>>

\* what the actions of one subsystem leave alone
notExec == <<cbVars, sigVars, riskVars, hedgeVars, momVars, mrVars, featVars,
             batchVars, persistVars>>
notCB == <<execVars, sigVars, riskVars, hedgeVars, momVars, mrVars, featVars,
           batchVars, persistVars>>
notSig == <<execVars, cbVars, riskVars, hedgeVars, momVars, mrVars, featVars,
            batchVars, persistVars>>
notRisk == <<execVars, cbVars, sigVars, hedgeVars, momVars, mrVars, featVars,
             batchVars, persistVars>>
notHedge == <<execVars, cbVars, sigVars, riskVars, momVars, mrVars, featVars,
              batchVars, persistVars>>
notMomentum == <<execVars, cbVars, sigVars, riskVars, hedgeVars, mrVars,
                 featVars, batchVars, persistVars>>
notMeanReversion == <<execVars, cbVars, sigVars, riskVars, hedgeVars,
                      momVars, featVars, batchVars, persistVars>>
notFeatures == <<execVars, cbVars, sigVars, riskVars, hedgeVars, momVars,
                 mrVars, batchVars, persistVars>>
notBatch == <<execVars, cbVars, sigVars, riskVars, hedgeVars, momVars,
              mrVars, featVars, persistVars>>
notPersist == <<execVars, cbVars, sigVars, riskVars, hedgeVars, momVars,
                mrVars, featVars, batchVars>>

(***************************************************************************)
(* Orders and execution results                                            *)
(***************************************************************************)
\* app.schemas.models.Order with its defaults
MkOrder(side, ot, q, p, sp, sl, tp, style) ==
    [side |-> side, order_type |-> ot, quantity |-> q, price |-> p,
     stop_price |-> sp, stop_loss |-> sl, take_profit |-> tp,
     time_in_force |-> "GTC", execution_style |-> style]

NoOrder == MkOrder("-", "-", 0, NoneV, NoneV, NoneV, NoneV, "-")

\* app.schemas.models.ExecutionResult as returned by a provider call
Res(succ, id, st, q) ==
    [raised |-> FALSE, success |-> succ, order_id |-> id, status |-> st,
     filled_quantity |-> q]

\* the provider call raised instead of returning
Raised == [raised |-> TRUE, success |-> FALSE, order_id |-> FALSE,
           status |-> "EXC", filled_quantity |-> 0]

NoRes == [raised |-> FALSE, success |-> FALSE, order_id |-> FALSE,
          status |-> "-", filled_quantity |-> 0]

Providers == {"binance", "alpaca"}

\* status of the error result each tool builds in execute_order
ExecFailStatus(prov) == IF prov = "binance" THEN "FAILED" ELSE "ERROR"

\* what execute_order(o) can answer
ExecuteAnswers(prov, o) ==
    IF o.order_type \notin {"MARKET", "LIMIT"}
    THEN \* "Unsupported order type": BinanceTool lets the ValueError out,
         \* AlpacaTool turns it into an error result
         IF prov = "binance" THEN {Raised}
         ELSE {Res(FALSE, FALSE, "ERROR", 0), Raised}
    ELSE {Res(TRUE, TRUE, "NEW", 0), Res(TRUE, FALSE, "NEW", 0),
          Res(TRUE, TRUE, "FILLED", o.quantity),
          Res(FALSE, FALSE, ExecFailStatus(prov), 0), Raised}
         \cup {Res(TRUE, TRUE, "PARTIALLY_FILLED", q) : q \in 1..(o.quantity - 1)}

\* what get_order_status can answer about the limit order
StatusAnswers ==
    {Res(TRUE, TRUE, "NEW", 0), Res(TRUE, TRUE, "FILLED", OrderQty),
     Res(TRUE, TRUE, "REJECTED", 0), Res(FALSE, FALSE, "ERROR", 0), Raised}
    \cup {Res(TRUE, TRUE, "PARTIALLY_FILLED", q) : q \in 1..(OrderQty - 1)}
    \cup {Res(TRUE, TRUE, "CANCELED", q) : q \in 0..(OrderQty - 1)}

\* what cancel_order can answer
CancelAnswers ==
    {Res(FALSE, FALSE, "ERROR", 0), Raised}
    \cup {Res(TRUE, TRUE, "CANCELED", q) : q \in 0..(OrderQty - 1)}

\* what get_orderbook can answer: top of book, either side possibly empty
Books == {[bids |-> b, asks |-> a] : b \in {<<>>, <<100>>}, a \in {<<>>, <<101>>}}

\* one entry of the call log
Call(op, o, br) == [op |-> op, order |-> o, bracket |-> br]

\* AlpacaTool.execute_order attaches a native bracket only when both
\* protective levels are present and the submission went through
AlpacaBracket(prov, o, out) ==
    /\ prov = "alpaca"
    /\ o.order_type \in {"MARKET", "LIMIT"}
    /\ Truthy(o.stop_loss) /\ Truthy(o.take_profit)
    /\ ~out.raised /\ out.success

ExecCall(prov, o, out) == Call("execute_order", o, AlpacaBracket(prov, o, out))

(***************************************************************************)
(* ensure_safety_orders / safe_execute_order                               *)
(***************************************************************************)
\* the STOP_LOSS order the watchdog builds
SlOrder(o, qty) ==
    MkOrder(IF o.side = "BUY" THEN "SELL" ELSE "BUY", "STOP_LOSS", qty,
            NoneV, o.stop_loss, NoneV, NoneV, "AGGRESSIVE")

\* ensure_safety_orders submits a stop
SafetyFires(prov, o, fill) ==
    /\ prov # "alpaca"
    /\ fill.filled_quantity > 0
    /\ Truthy(o.stop_loss)

\* ensure_safety_orders without the try/except around the stop submission
EnsureSafety_NoCatch(prov, o, fill, slout) ==
    IF SafetyFires(prov, o, fill)
    THEN [calls |-> <<ExecCall(prov, SlOrder(o, fill.filled_quantity), slout)>>,
          wd |-> IF slout.raised \/ ~slout.success THEN "failed" ELSE "placed",
          exc |-> slout.raised]
    ELSE [calls |-> <<>>, wd |-> "none", exc |-> FALSE]

\* ensure_safety_orders(o, fill): the calls it makes, how the watchdog ended
\* and whether an exception leaves it; slout is the provider's answer to the
\* stop submission (an exception of that call is caught and logged)
EnsureSafety(prov, o, fill, slout) ==
    IF SafetyFires(prov, o, fill)
    THEN [calls |-> <<ExecCall(prov, SlOrder(o, fill.filled_quantity), slout)>>,
          wd |-> IF slout.raised \/ ~slout.success THEN "failed" ELSE "placed",
          exc |-> FALSE]
    ELSE [calls |-> <<>>, wd |-> "none", exc |-> FALSE]

\* safe_execute_order runs the watchdog after the main order
SafeRunsWatchdog(o, out) ==
    ~out.raised /\ out.success /\ (Truthy(o.stop_loss) \/ Truthy(o.take_profit))

\* safe_execute_order(o) with the provider answering out, then slout
SafeExecute(prov, o, out, slout) ==
    LET es == IF SafeRunsWatchdog(o, out)
              THEN EnsureSafety(prov, o, out, slout)
              ELSE [calls |-> <<>>, wd |-> "none", exc |-> FALSE]
    IN [calls |-> <<ExecCall(prov, o, out)>> \o es.calls,
        wd |-> es.wd,
        parent |-> out,
        out |-> IF es.exc THEN Raised ELSE out]

\* the answers of execute_order to a stop submission
StopAnswers(prov) == ExecuteAnswers(prov, SlOrder(NoOrder, 1))

(***************************************************************************)
(* smart_execute_order                                                     *)
(***************************************************************************)
\* the LIMIT order placed at the passive side
LimitOrder(o, p) ==
    MkOrder(o.side, "LIMIT", o.quantity, p, NoneV, o.stop_loss, o.take_profit,
            "AGGRESSIVE")

FallbackOrder_Rebuilt(o) ==
    MkOrder(o.side, "MARKET", o.quantity, NoneV, NoneV, NoneV, NoneV,
            "AGGRESSIVE")

\* order.order_type = "MARKET" on the order that was handed in
FallbackOrder(o) == [o EXCEPT !.order_type = "MARKET"]

\* a MARKET chase that does not forward the protective levels
MarketOrder_DropsStops(o) ==
    MkOrder(o.side, "MARKET", o.quantity, NoneV, NoneV, NoneV, NoneV,
            "AGGRESSIVE")

\* the MARKET chase order
MarketOrder(o) ==
    MkOrder(o.side, "MARKET", o.quantity, NoneV, NoneV, o.stop_loss,
            o.take_profit, "AGGRESSIVE")

\* the passive price: best bid for BUY, best ask for SELL; NoneV when that
\* side of the book is empty
PassivePrice(o, ob) ==
    IF o.side = "BUY"
    THEN (IF ob.bids # <<>> THEN ob.bids[1] ELSE NoneV)
    ELSE (IF ob.asks # <<>> THEN ob.asks[1] ELSE NoneV)

\* a poll loop that keeps waiting on FILLED
PollNext_NoReturn(st) ==
    IF st.status = "CANCELED" \/ st.status = "REJECTED" THEN "break"
    ELSE "continue"

\* what the poll loop does with a status
PollNext(st) ==
    IF st.status = "FILLED" THEN "return"
    ELSE IF st.status = "CANCELED" \/ st.status = "REJECTED" THEN "break"
    ELSE "continue"

\* the second watchdog, on a status that reports FILLED
PollWatchdog(prov, o, st, slout) ==
    IF prov # "alpaca" /\ (Truthy(o.stop_loss) \/ Truthy(o.take_profit))
    THEN EnsureSafety(prov, o, st, slout)
    ELSE [calls |-> <<>>, wd |-> "none", exc |-> FALSE]

\* where smart_execute_order goes after cancel_order answered
AfterCancel(cout) == IF cout.raised THEN "recheck" ELSE "chase"

Orders ==
    {MkOrder(sd, ot, OrderQty, NoneV, NoneV, sl, tp, st) :
        sd \in {"BUY", "SELL"}, ot \in {"MARKET", "LIMIT"},
        sl \in {NoneV, 95}, tp \in {NoneV, 110},
        st \in {"PASSIVE", "AGGRESSIVE"}}

InitExec ==
    /\ provider \in Providers
    /\ order \in Orders
    /\ pc = "start"
    /\ price = 0
    /\ result = NoRes
    /\ i = 0
    /\ calls = <<>>
    /\ ret = NoRes
    /\ raisedAt = "-"
    /\ wd = "none"
    /\ parentOut = NoRes
    /\ stepOut = NoRes
    /\ sawFilled = 0
    /\ unfilled = 0
    /\ cancelOut = NoRes
    /\ recheckOut = NoRes
    /\ obFailed = FALSE

\* a call to safe_execute_order whose result is returned to the caller as is
ReturnSafe(o, at) ==
    \E out \in ExecuteAnswers(provider, o), slout \in StopAnswers(provider) :
        LET se == SafeExecute(provider, o, out, slout) IN
        /\ calls' = calls \o se.calls
        /\ wd' = se.wd
        /\ parentOut' = se.parent
        /\ stepOut' = se.out
        /\ IF se.out.raised
           THEN pc' = "raised" /\ raisedAt' = at /\ ret' = ret
           ELSE pc' = "done" /\ raisedAt' = raisedAt /\ ret' = se.out

\* execution_agent_node, order.execution_style # "PASSIVE"
AggressiveExecute ==
    /\ UNCHANGED notExec
    /\ pc = "start"
    /\ order.execution_style # "PASSIVE"
    /\ ReturnSafe(order, "execute")
    /\ UNCHANGED <<provider, order, price, result, i, sawFilled, unfilled, cancelOut,
                   recheckOut, obFailed>>

\* smart_execute_order, step 1: the book and the limit price
GetOrderbook ==
    /\ UNCHANGED notExec
    /\ pc = "start"
    /\ order.execution_style = "PASSIVE"
    /\ calls' = Append(calls, Call("get_orderbook", NoOrder, FALSE))
    /\ \/ /\ obFailed' = TRUE
          /\ order' = FallbackOrder(order)
          /\ pc' = "fallback"
          /\ price' = price
       \/ \E ob \in Books :
            /\ obFailed' = FALSE
            /\ IF PassivePrice(order, ob) = NoneV
               THEN /\ order' = FallbackOrder(order)
                    /\ pc' = "fallback"
                    /\ price' = price
               ELSE /\ order' = order
                    /\ pc' = "place_limit"
                    /\ price' = PassivePrice(order, ob)
    /\ UNCHANGED <<provider, result, i, ret, raisedAt, wd, parentOut, stepOut,
                   sawFilled, unfilled, cancelOut, recheckOut>>

\* the fallback: return await safe_execute_order(order) with order_type MARKET
FallbackMarket ==
    /\ UNCHANGED notExec
    /\ pc = "fallback"
    /\ ReturnSafe(order, "fallback")
    /\ UNCHANGED <<provider, order, price, result, i, sawFilled, unfilled, cancelOut,
                   recheckOut, obFailed>>

\* what smart_execute_order does with the result of the limit placement
AfterLimit(res) ==
    IF res.raised THEN "raised"
    ELSE IF ~res.success THEN "fallback"
    ELSE IF ~res.order_id THEN "done"
    ELSE "poll"

\* result = await safe_execute_order(limit_order)
PlaceLimit ==
    /\ UNCHANGED notExec
    /\ pc = "place_limit"
    /\ \E out \in ExecuteAnswers(provider, LimitOrder(order, price)),
          slout \in StopAnswers(provider) :
        LET se == SafeExecute(provider, LimitOrder(order, price), out, slout)
            nx == AfterLimit(se.out) IN
        /\ calls' = calls \o se.calls
        /\ wd' = se.wd
        /\ parentOut' = se.parent
        /\ stepOut' = se.out
        /\ result' = se.out
        /\ pc' = nx
        /\ raisedAt' = IF nx = "raised" THEN "place_limit" ELSE raisedAt
        /\ ret' = IF nx = "done" THEN se.out ELSE ret
        /\ order' = IF nx = "fallback"
                    THEN FallbackOrder(order) ELSE order
    /\ UNCHANGED <<provider, price, i, sawFilled, unfilled, cancelOut, recheckOut, obFailed>>

\* one iteration of the poll loop
Poll ==
    /\ UNCHANGED notExec
    /\ pc = "poll"
    /\ i < PollAttempts
    /\ i' = i + 1
    /\ \E st \in StatusAnswers, slout \in StopAnswers(provider) :
        LET nx == IF st.raised THEN "raise" ELSE PollNext(st)
            w == IF nx = "return" THEN PollWatchdog(provider, order, st, slout)
                 ELSE [calls |-> <<>>, wd |-> "none", exc |-> FALSE] IN
        /\ calls' = Append(calls, Call("get_order_status", NoOrder, FALSE)) \o w.calls
        /\ wd' = w.wd
        /\ parentOut' = st
        /\ stepOut' = IF w.exc THEN Raised ELSE st
        /\ sawFilled' = IF ~st.raised /\ st.status = "FILLED" THEN i + 1 ELSE sawFilled
        /\ unfilled' = IF ~st.raised /\ st.status # "FILLED" THEN unfilled + 1 ELSE unfilled
        /\ CASE nx = "raise" ->
                  pc' = "raised" /\ raisedAt' = "poll" /\ ret' = ret
             [] nx = "return" ->
                  /\ pc' = IF w.exc THEN "raised" ELSE "done"
                  /\ raisedAt' = IF w.exc THEN "watchdog" ELSE raisedAt
                  /\ ret' = IF w.exc THEN ret ELSE st
             [] nx = "break" ->
                  pc' = "cancel" /\ raisedAt' = raisedAt /\ ret' = ret
             [] OTHER ->
                  /\ pc' = IF i + 1 = PollAttempts THEN "cancel" ELSE "poll"
                  /\ raisedAt' = raisedAt /\ ret' = ret
    /\ UNCHANGED <<provider, order, price, result, cancelOut, recheckOut, obFailed>>

\* step 3: cancel the resting limit order
Cancel ==
    /\ UNCHANGED notExec
    /\ pc = "cancel"
    /\ \E cout \in CancelAnswers :
        /\ cancelOut' = cout
        /\ pc' = AfterCancel(cout)
    /\ calls' = Append(calls, Call("cancel_order", NoOrder, FALSE))
    /\ UNCHANGED <<provider, order, price, result, i, ret, raisedAt, wd,
                   parentOut, stepOut, sawFilled, unfilled, recheckOut, obFailed>>

\* the except branch of the cancel: look at the order's status again
Recheck ==
    /\ UNCHANGED notExec
    /\ pc = "recheck"
    /\ \E st \in StatusAnswers, slout \in StopAnswers(provider) :
        LET filled == ~st.raised /\ st.status = "FILLED"
            w == IF filled THEN PollWatchdog(provider, order, st, slout)
                 ELSE [calls |-> <<>>, wd |-> "none", exc |-> FALSE] IN
        /\ calls' = Append(calls, Call("get_order_status", NoOrder, FALSE)) \o w.calls
        /\ recheckOut' = st
        /\ wd' = w.wd
        /\ parentOut' = st
        /\ stepOut' = IF w.exc THEN Raised ELSE st
        /\ IF st.raised \/ w.exc
           THEN pc' = "raised" /\ raisedAt' = "recheck" /\ ret' = ret
           ELSE IF filled
           THEN pc' = "done" /\ raisedAt' = raisedAt /\ ret' = st
           ELSE pc' = "chase" /\ raisedAt' = raisedAt /\ ret' = ret
    /\ UNCHANGED <<provider, order, price, result, i, sawFilled, unfilled, cancelOut, obFailed>>

\* the MARKET chase
Chase ==
    /\ UNCHANGED notExec
    /\ pc = "chase"
    /\ ReturnSafe(MarketOrder(order), "chase")
    /\ UNCHANGED <<provider, order, price, result, i, sawFilled, unfilled, cancelOut,
                   recheckOut, obFailed>>

NextExec ==
    \/ AggressiveExecute
    \/ GetOrderbook
    \/ FallbackMarket
    \/ PlaceLimit
    \/ Poll
    \/ Cancel
    \/ Recheck
    \/ Chase

\* the engine at rest, for the specifications of the other subsystems
ExecIdle ==
    /\ provider = "binance"
    /\ order = MkOrder("BUY", "MARKET", OrderQty, NoneV, NoneV, NoneV, NoneV, "AGGRESSIVE")
    /\ pc = "idle"
    /\ price = 0 /\ result = NoRes /\ i = 0 /\ calls = <<>> /\ ret = NoRes
    /\ raisedAt = "-" /\ wd = "none" /\ parentOut = NoRes /\ stepOut = NoRes
    /\ sawFilled = 0 /\ unfilled = 0 /\ cancelOut = NoRes /\ recheckOut = NoRes
    /\ obFailed = FALSE

(***************************************************************************)
(* Resilience layer: CircuitBreaker and api_retry_policy                   *)
(***************************************************************************)
Callers == {"c1", "c2"}

\* CircuitBreaker.record_failure with an off-by-one threshold test
FailureState_OffByOne(f, st) ==
    IF f > failure_threshold /\ st = "CLOSED" THEN "OPEN" ELSE st

\* CircuitBreaker.record_failure: the state after the count became f
FailureState(f, st) ==
    IF f >= failure_threshold /\ st = "CLOSED" THEN "OPEN" ELSE st

SuccessState_KeepsOpen(st) == st

\* CircuitBreaker.record_success: self.state = "CLOSED"
SuccessState(st) == "CLOSED"

\* CircuitBreaker.check that never lets a call through an OPEN breaker
CheckRejects_NoRecovery(st, t, lft) ==
    st = "OPEN"

\* CircuitBreaker.check raises CircuitBreakerOpenException
CheckRejects(st, t, lft) ==
    st = "OPEN" /\ ~(t - lft > recovery_timeout)

\* is_retryable_exception that retries a ValueError
IsRetryable_ValueError(exc) ==
    exc \notin {"ImportError", "SyntaxError", "CircuitBreakerOpenException"}

\* is_retryable_exception, on the class of the exception
IsRetryable(exc) ==
    exc \notin {"ValueError", "ImportError", "SyntaxError", "CircuitBreakerOpenException"}

\* stop_after_attempt that gives up after the first invocation
StopAfterAttempt_First(n) ==
    n >= 1

\* stop=stop_after_attempt(settings.MAX_RETRIES), on tenacity's attempt_number
StopAfterAttempt(n) ==
    n >= MAX_RETRIES

\* what one invocation of the wrapped function can end with
AttemptOutcomes ==
    {"ok", "RuntimeError", "ValueError", "ImportError", "SyntaxError",
     "CircuitBreakerOpenException"}

\* the breaker is OPEN and recovery_timeout has not elapsed at time t
Blocked(st, t, lft) ==
    st = "OPEN" /\ t - lft <= recovery_timeout

InitCB ==
    /\ cbState = "CLOSED"
    /\ failures = 0
    /\ last_failure_time = 0
    /\ now = 0
    /\ cpc = [c \in Callers |-> "idle"]
    /\ attempt = [c \in Callers |-> 0]
    /\ lastEnd = [c \in Callers |-> "none"]
    /\ consec = 0
    /\ afterTrip = [c \in Callers |-> FALSE]
    /\ openElapsed = [c \in Callers |-> FALSE]
    /\ startedBlocked = [c \in Callers |-> FALSE]
    /\ nfail = [c \in Callers |-> 0]
    /\ recorded = [c \in Callers |-> 0]
    /\ lastRaised = [c \in Callers |-> "none"]
    /\ propagated = [c \in Callers |-> "none"]

\* wrapper(): api_circuit_breaker.check(), then the first invocation starts
Begin(c) ==
    /\ UNCHANGED notCB
    /\ cpc[c] = "idle"
    /\ failures < MaxFailures
    /\ afterTrip' = [afterTrip EXCEPT ![c] =
                        consec >= failure_threshold
                        /\ now - last_failure_time <= recovery_timeout]
    /\ openElapsed' = [openElapsed EXCEPT ![c] =
                        cbState = "OPEN"
                        /\ now - last_failure_time > recovery_timeout]
    /\ nfail' = [nfail EXCEPT ![c] = 0]
    /\ recorded' = [recorded EXCEPT ![c] = 0]
    /\ lastRaised' = [lastRaised EXCEPT ![c] = "none"]
    /\ IF CheckRejects(cbState, now, last_failure_time)
       THEN /\ lastEnd' = [lastEnd EXCEPT ![c] = "rejected"]
            /\ attempt' = [attempt EXCEPT ![c] = 0]
            /\ cpc' = cpc
            /\ startedBlocked' = [startedBlocked EXCEPT ![c] = FALSE]
            /\ propagated' = [propagated EXCEPT ![c] = "CircuitBreakerOpenException"]
       ELSE /\ lastEnd' = [lastEnd EXCEPT ![c] = "none"]
            /\ attempt' = [attempt EXCEPT ![c] = 1]
            /\ cpc' = [cpc EXCEPT ![c] = "running"]
            /\ startedBlocked' = [startedBlocked EXCEPT ![c] =
                                    Blocked(cbState, now, last_failure_time)]
            /\ propagated' = [propagated EXCEPT ![c] = "none"]
    /\ UNCHANGED <<cbState, failures, last_failure_time, now, consec>>

\* the invocation returns: record_success, the wrapper returns the result
AttemptOk(c) ==
    /\ UNCHANGED notCB
    /\ cpc[c] = "running"
    /\ cbState' = SuccessState(cbState)
    /\ failures' = 0
    /\ consec' = 0
    /\ cpc' = [cpc EXCEPT ![c] = "idle"]
    /\ lastEnd' = [lastEnd EXCEPT ![c] = "ok"]
    /\ lastRaised' = [lastRaised EXCEPT ![c] = "none"]
    /\ UNCHANGED <<last_failure_time, now, attempt, afterTrip, openElapsed,
                   startedBlocked, nfail, recorded, propagated>>

\* the invocation raises: tenacity retries, gives up (retry_error_callback
\* records the failure) or lets a non-retryable exception through
AttemptRaises(c) ==
    /\ UNCHANGED notCB
    /\ cpc[c] = "running"
    /\ \E exc \in AttemptOutcomes \ {"ok"} :
        /\ lastRaised' = [lastRaised EXCEPT ![c] = exc]
        /\ nfail' = [nfail EXCEPT ![c] =
                        IF exc = "RuntimeError" THEN nfail[c] + 1 ELSE nfail[c]]
        /\ IF ~IsRetryable(exc)
           THEN /\ cpc' = [cpc EXCEPT ![c] = "idle"]
                /\ lastEnd' = [lastEnd EXCEPT ![c] = "fatal"]
                /\ consec' = 0
                /\ propagated' = [propagated EXCEPT ![c] = exc]
                /\ UNCHANGED <<cbState, failures, last_failure_time, recorded>>
           ELSE IF StopAfterAttempt(attempt[c])
           THEN /\ failures' = failures + 1
                /\ last_failure_time' = now
                /\ cbState' = FailureState(failures + 1, cbState)
                /\ cpc' = [cpc EXCEPT ![c] = "idle"]
                /\ lastEnd' = [lastEnd EXCEPT ![c] = "exhausted"]
                /\ consec' = consec + 1
                /\ recorded' = [recorded EXCEPT ![c] = recorded[c] + 1]
                /\ propagated' = [propagated EXCEPT ![c] = exc]
           ELSE /\ cpc' = [cpc EXCEPT ![c] = "sleeping"]
                /\ UNCHANGED <<cbState, failures, last_failure_time, lastEnd,
                               consec, recorded, propagated>>
    /\ UNCHANGED <<now, attempt, afterTrip, openElapsed, startedBlocked>>

\* the backoff sleep is over: the next invocation starts
Retry(c) ==
    /\ UNCHANGED notCB
    /\ cpc[c] = "sleeping"
    /\ cpc' = [cpc EXCEPT ![c] = "running"]
    /\ attempt' = [attempt EXCEPT ![c] = attempt[c] + 1]
    /\ startedBlocked' = [startedBlocked EXCEPT ![c] =
                            startedBlocked[c]
                            \/ Blocked(cbState, now, last_failure_time)]
    /\ UNCHANGED <<cbState, failures, last_failure_time, now, lastEnd, consec,
                   afterTrip, openElapsed, nfail, recorded, lastRaised,
                   propagated>>

\* time passes
Tick ==
    /\ UNCHANGED notCB
    /\ now < MaxTime
    /\ now' = now + 1
    /\ UNCHANGED <<cbState, failures, last_failure_time, cpc, attempt, lastEnd,
                   consec, afterTrip, openElapsed, startedBlocked, nfail,
                   recorded, lastRaised, propagated>>

NextCB ==
    \/ \E c \in Callers : Begin(c)
    \/ \E c \in Callers : AttemptOk(c)
    \/ \E c \in Callers : AttemptRaises(c)
    \/ \E c \in Callers : Retry(c)
    \/ Tick

(***************************************************************************)
(* Signal construction (pydantic validation)                               *)
(***************************************************************************)
\* Signal.check_exits that tolerates a missing stop
check_exits_Lenient(direction, stop_loss) == TRUE

\* Signal.check_exits: TRUE when the validator lets the model through
check_exits(direction, stop_loss) ==
    ~(direction \in {"LONG", "SHORT"} /\ stop_loss = NoneV)

\* Field(ge=0.0, le=1.0), in tenths
InUnit(x) == 0 <= x /\ x <= 10

\* the field validation that runs before the model validator
FieldsValid(sg) ==
    /\ sg.direction \in {"LONG", "SHORT", "NEUTRAL"}
    /\ InUnit(sg.strength)
    /\ InUnit(sg.confidence)

\* Signal(...): the outcome of construction
Construct(sg) ==
    IF FieldsValid(sg) /\ check_exits(sg.direction, sg.stop_loss)
    THEN "ok" ELSE "ValidationError"

SignalInputs ==
    [direction : {"LONG", "SHORT", "NEUTRAL", "FLAT"},
     stop_loss : {NoneV, 0, 95},
     strength : {-1, 0, 5, 10, 11},
     confidence : {-1, 0, 5, 10, 11}]

InitSig ==
    /\ sigIn \in SignalInputs
    /\ sigOut = "pending"

SigIdle ==
    /\ sigIn = [direction |-> "NEUTRAL", stop_loss |-> NoneV, strength |-> 0,
                confidence |-> 0]
    /\ sigOut = "pending"

ConstructSignal ==
    /\ UNCHANGED notSig
    /\ sigOut = "pending"
    /\ sigOut' = Construct(sigIn)
    /\ sigIn' = sigIn

NextSig == ConstructSignal

(***************************************************************************)
(* Risk manager: risk_management_node and _calculate_position_size         *)
(***************************************************************************)
\* state["symbol"]
Symbol == "BTC"

Min2(a, b) == IF a <= b THEN a ELSE b

\* `x or 0.0` of an Optional[float]
OrZero(x) == IF Truthy(x) THEN x ELSE 0

\* Order(symbol=symbol, instrument_type=..., side=..., order_type="MARKET",
\* quantity=..., stop_price=...): the other fields keep their defaults
RiskOrder(it, side, q, sp) ==
    [symbol |-> Symbol, instrument_type |-> it, side |-> side,
     order_type |-> "MARKET", quantity |-> q, price |-> NoneV,
     stop_price |-> sp, stop_loss |-> NoneV, take_profit |-> NoneV]

\* the iteration appended nothing
NoApproved == RiskOrder("-", "-", 0, NoneV)

\* a Signal as the node reads it (confidence in tenths); a directional Signal
\* always has a stop_loss (check_exits)
RiskSignal(dir, it, conf, sq, entry) ==
    [direction |-> dir, instrument_type |-> it, confidence |-> conf,
     suggested_quantity |-> sq, entry_price |-> entry,
     stop_loss |-> IF dir \in {"LONG", "SHORT"} THEN 95 ELSE NoneV]

NoSignal == RiskSignal("-", "-", 0, NoneV, NoneV)

\* the signals a call may be given: confident directional ones with and
\* without entry_price and with a suggested_quantity that is absent, zero or
\* positive, two at a price where the leverage cap binds, two below the
\* confidence threshold, one NEUTRAL
RiskSignals ==
    {RiskSignal(d, it, 5, sq, 100) :
        d \in {"LONG", "SHORT"}, it \in {"SPOT", "FUTURE"}, sq \in {NoneV, 20}}
    \cup {RiskSignal("LONG", "SPOT", 5, 0, 100),
          RiskSignal("LONG", "SPOT", 5, NoneV, NoneV),
          RiskSignal("SHORT", "FUTURE", 5, NoneV, NoneV)}
    \cup {RiskSignal(d, "SPOT", 5, NoneV, 50000) : d \in {"LONG", "SHORT"}}
    \cup {RiskSignal("LONG", "SPOT", 4, NoneV, 100),
          RiskSignal("SHORT", "FUTURE", 4, NoneV, 100),
          RiskSignal("NEUTRAL", "SPOT", 5, NoneV, 100)}

\* positions a portfolio may hold: a SPOT LONG, a SPOT SHORT, the FUTURE
\* SHORT of a hedge, and a SPOT LONG on another symbol
PositionPool ==
    {[symbol |-> Symbol, instrument_type |-> "SPOT", side |-> "LONG",
      quantity |-> PosQty],
     [symbol |-> Symbol, instrument_type |-> "SPOT", side |-> "SHORT",
      quantity |-> PosQty],
     [symbol |-> Symbol, instrument_type |-> "FUTURE", side |-> "SHORT",
      quantity |-> PosQty],
     [symbol |-> "ETH", instrument_type |-> "SPOT", side |-> "LONG",
      quantity |-> PosQty]}

\* portfolio.positions (the node only sums and searches the list)
Portfolios == {P \in SUBSET PositionPool : Cardinality(P) <= MaxPositions}

\* MarketFeatures.atr (dollars) and .volatility_forecast (units of 1/1600)
FeaturePool ==
    {[atr |-> NoneV, volatility_forecast |-> NoneV],
     [atr |-> 2, volatility_forecast |-> NoneV],
     [atr |-> NoneV, volatility_forecast |-> 40],
     [atr |-> 2, volatility_forecast |-> 20]}

RiskInputs ==
    [method : {"FIXED", "VOLATILITY", "KELLY", "VOL_TARGET"},
     max_position_size : {5, 100000},
     features : FeaturePool,
     positions : Portfolios,
     daily_pnl : {-max_daily_loss - 1, -max_daily_loss},
     allow_shorting : BOOLEAN]

RECURSIVE SumQty(_)
SumQty(S) ==
    IF S = {} THEN 0
    ELSE LET p == CHOOSE x \in S : TRUE IN p.quantity + SumQty(S \ {p})

\* long_qty: the SPOT LONG quantity held on the symbol
LongQty(positions) ==
    SumQty({p \in positions :
              p.symbol = Symbol /\ p.side = "LONG" /\ p.instrument_type = "SPOT"})

\* the global check that lets a loss equal to the limit halt the node
DailyLossHalt_AtLimit(pnl, limit) ==
    pnl <= -limit

\* portfolio.daily_pnl < -risk_limits.max_daily_loss
DailyLossHalt(pnl, limit) ==
    pnl < -limit

\* is_short_restricted
IsShortRestricted(sig, allow) ==
    sig.direction = "SHORT" /\ ~allow /\ sig.instrument_type = "SPOT"

\* close_qty that is not capped by the long held
CloseQty_Uncapped(long_qty, mps) ==
    mps

\* close_qty = min(long_qty, risk_limits.max_position_size)
CloseQty(long_qty, mps) ==
    Min2(long_qty, mps)

\* has_position that does not compare the instrument type
HasPosition_AnyInstrument(sig, positions) ==
    \E p \in positions :
        /\ p.symbol = Symbol
        /\ \/ (p.side = "LONG" /\ sig.direction = "LONG")
           \/ (p.side = "SHORT" /\ sig.direction = "SHORT")

\* has_position: a position in the signal's direction on (symbol, instrument)
HasPosition(sig, positions) ==
    \E p \in positions :
        /\ p.symbol = Symbol /\ p.instrument_type = sig.instrument_type
        /\ \/ (p.side = "LONG" /\ sig.direction = "LONG")
           \/ (p.side = "SHORT" /\ sig.direction = "SHORT")

\* the fallback that ignores max_position_size
FixedSize_Uncapped(mps) ==
    FixedDefault

\* min(risk_limits.max_position_size, 0.01)
FixedSize(mps) ==
    Min2(mps, FixedDefault)

\* _calculate_position_size without the cap at max leverage
PositionSize_NoLeverageCap(sig, method, mps, atr, vol_forecast, current_price) ==
    IF sig.suggested_quantity # NoneV /\ sig.suggested_quantity > 0
    THEN Min2(sig.suggested_quantity, mps)
    ELSE IF method = "FIXED"
    THEN FixedSize(mps)
    ELSE IF method = "VOLATILITY"
    THEN IF atr = NoneV \/ atr <= 0 \/ current_price <= 0
         THEN FixedSize(mps)
         ELSE LET risk_amount == Equity \div RiskPerTradeDen
                  stop_distance == atr * atr_stop_multiplier
              IN  IF stop_distance = 0
                  THEN 0
                  ELSE Min2((QtyScale * risk_amount) \div stop_distance, mps)
    ELSE IF method = "VOL_TARGET"
    THEN IF vol_forecast = NoneV \/ vol_forecast <= 0
         THEN FixedSize(mps)
         ELSE LET capped == TargetVolDaily >= vol_forecast * max_leverage
                  \* leverage = min(target_vol_daily / vol_forecast, max_leverage)
                  num == IF capped THEN max_leverage ELSE TargetVolDaily
                  den == IF capped THEN 1 ELSE vol_forecast
                  position_size ==
                      IF current_price > 0
                      THEN (QtyScale * Equity * num) \div (den * current_price)
                      ELSE 0
              IN  Min2(position_size, mps)
    ELSE mps

\* _calculate_position_size, in thousandths (the divisions are exact on the
\* inputs of the model)
PositionSize(sig, method, mps, atr, vol_forecast, current_price) ==
    IF sig.suggested_quantity # NoneV /\ sig.suggested_quantity > 0
    THEN Min2(sig.suggested_quantity, mps)
    ELSE IF method = "FIXED"
    THEN FixedSize(mps)
    ELSE IF method = "VOLATILITY"
    THEN IF atr = NoneV \/ atr <= 0 \/ current_price <= 0
         THEN FixedSize(mps)
         ELSE LET risk_amount == Equity \div RiskPerTradeDen
                  stop_distance == atr * atr_stop_multiplier
                  max_qty_by_leverage ==
                      (QtyScale * Equity * max_leverage) \div current_price
              IN  IF stop_distance = 0
                  THEN 0
                  ELSE Min2(Min2((QtyScale * risk_amount) \div stop_distance, mps),
                            max_qty_by_leverage)
    ELSE IF method = "VOL_TARGET"
    THEN IF vol_forecast = NoneV \/ vol_forecast <= 0
         THEN FixedSize(mps)
         ELSE LET capped == TargetVolDaily >= vol_forecast * max_leverage
                  \* leverage = min(target_vol_daily / vol_forecast, max_leverage)
                  num == IF capped THEN max_leverage ELSE TargetVolDaily
                  den == IF capped THEN 1 ELSE vol_forecast
                  position_size ==
                      IF current_price > 0
                      THEN (QtyScale * Equity * num) \div (den * current_price)
                      ELSE 0
              IN  Min2(position_size, mps)
    ELSE mps

\* stop_price of an entry order: derived from ATR, None without it
EntryStop(sig, atr) ==
    IF Truthy(atr)
    THEN IF sig.direction = "LONG"
         THEN OrZero(sig.entry_price) - atr * atr_stop_multiplier
         ELSE IF sig.direction = "SHORT"
         THEN OrZero(sig.entry_price) + atr * atr_stop_multiplier
         ELSE NoneV
    ELSE NoneV

\* one iteration of `for signal in signals`: the order appended, if any
ProcessSignal(sig, r) ==
    IF sig.direction = "NEUTRAL" THEN NoApproved
    ELSE IF sig.confidence < 5 THEN NoApproved
    ELSE IF IsShortRestricted(sig, r.allow_shorting)
    THEN LET long_qty == LongQty(r.positions)
             close_qty == CloseQty(long_qty, r.max_position_size)
         IN  IF long_qty <= 0 \/ close_qty <= 0
             THEN NoApproved
             ELSE RiskOrder(sig.instrument_type, "SELL", close_qty, NoneV)
    ELSE IF HasPosition(sig, r.positions) THEN NoApproved
    ELSE LET position_size ==
                 PositionSize(sig, r.method, r.max_position_size, r.features.atr,
                              r.features.volatility_forecast,
                              OrZero(sig.entry_price))
         IN  IF position_size <= 0
             THEN NoApproved
             ELSE RiskOrder(sig.instrument_type,
                            IF sig.direction = "LONG" THEN "BUY" ELSE "SELL",
                            position_size, EntryStop(sig, r.features.atr))

InitRisk ==
    /\ rin \in RiskInputs
    /\ rpc = "start"
    /\ fetch = "none"
    /\ nsig = 0
    /\ lastSig = NoSignal
    /\ lastOrder = NoApproved
    /\ approved_orders = <<>>

RiskIdle ==
    /\ rin = [method |-> "FIXED", max_position_size |-> 100000,
              features |-> [atr |-> NoneV, volatility_forecast |-> NoneV],
              positions |-> {}, daily_pnl |-> 0, allow_shorting |-> FALSE]
    /\ rpc = "idle"
    /\ fetch = "none"
    /\ nsig = 0
    /\ lastSig = NoSignal
    /\ lastOrder = NoApproved
    /\ approved_orders = <<>>

\* the portfolio is taken from the state or fetched from the provider (the
\* fetch may raise: the node returns no orders), then the daily loss check
RiskEnter ==
    /\ UNCHANGED notRisk
    /\ rpc = "start"
    /\ \E got \in {"ok", "failed"} :
        /\ fetch' = got
        /\ rpc' = IF got = "failed" \/ DailyLossHalt(rin.daily_pnl, max_daily_loss)
                  THEN "done" ELSE "loop"
    /\ UNCHANGED <<rin, nsig, lastSig, lastOrder, approved_orders>>

\* one iteration of the loop over the signals
RiskNextSignal ==
    /\ UNCHANGED notRisk
    /\ rpc = "loop"
    /\ nsig < MaxSignals
    /\ \E sig \in RiskSignals :
        LET o == ProcessSignal(sig, rin)
        IN  /\ lastSig' = sig
            /\ lastOrder' = o
            /\ approved_orders' = IF o = NoApproved THEN approved_orders
                                  ELSE Append(approved_orders, o)
    /\ nsig' = nsig + 1
    /\ UNCHANGED <<rin, rpc, fetch>>

\* the list is exhausted: the node returns approved_orders
RiskReturn ==
    /\ UNCHANGED notRisk
    /\ rpc = "loop"
    /\ rpc' = "done"
    /\ UNCHANGED <<rin, fetch, nsig, lastSig, lastOrder, approved_orders>>

NextRisk ==
    \/ RiskEnter
    \/ RiskNextSignal
    \/ RiskReturn

(***************************************************************************)
(* Hedge agent: hedge_agent_node                                           *)
(***************************************************************************)
\* a Signal as hedge_agent_node builds or passes it on; strength and
\* confidence in tenths, suggested_quantity in ten-thousandths
HedgeSignal(strat, it, dir, sq, sl) ==
    [strategy |-> strat, instrument_type |-> it, direction |-> dir,
     strength |-> 10, confidence |-> 10, suggested_quantity |-> sq,
     stop_loss |-> sl]

\* the incoming signals: none, or the one of the strategy
IncomingSignals ==
    {<<>>,
     <<HedgeSignal("momentum", "SPOT", "LONG", NoneV, 95)>>,
     <<HedgeSignal("momentum", "SPOT", "NEUTRAL", NoneV, NoneV)>>}

\* positions of the portfolio, quantities in ten-thousandths (0.0001)
HedgePositions ==
    {[symbol |-> Symbol, instrument_type |-> "SPOT", side |-> "LONG",
      quantity |-> HedgeQty + d] : d \in 0..2}
    \cup {[symbol |-> Symbol, instrument_type |-> "FUTURE", side |-> "SHORT",
           quantity |-> HedgeQty + d] : d \in {0, 2}}
    \cup {[symbol |-> Symbol, instrument_type |-> "SPOT", side |-> "SHORT",
           quantity |-> HedgeQty],
          [symbol |-> Symbol, instrument_type |-> "FUTURE", side |-> "LONG",
           quantity |-> HedgeQty],
          [symbol |-> "ETH", instrument_type |-> "SPOT", side |-> "LONG",
           quantity |-> HedgeQty]}

HedgeInputs ==
    {[has_portfolio |-> TRUE, positions |-> P, signals |-> sg] :
        P \in {Q \in SUBSET HedgePositions : Cardinality(Q) <= MaxPositions},
        sg \in IncomingSignals}
    \cup {[has_portfolio |-> FALSE, positions |-> {}, signals |-> sg] :
        sg \in IncomingSignals}

\* current_spot_qty: SPOT LONG quantity held on the symbol
CurrentSpotQty(h) ==
    IF h.has_portfolio
    THEN SumQty({p \in h.positions :
                   p.symbol = Symbol /\ p.instrument_type = "SPOT"
                   /\ p.side = "LONG"})
    ELSE 0

\* current_hedge_qty: FUTURE SHORT quantity held on the symbol
CurrentHedgeQty(h) ==
    IF h.has_portfolio
    THEN SumQty({p \in h.positions :
                   p.symbol = Symbol /\ p.instrument_type = "FUTURE"
                   /\ p.side = "SHORT"})
    ELSE 0

Abs(x) == IF x < 0 THEN -x ELSE x

\* abs(hedge_diff) > 0.0001
NeedsHedge(hedge_diff) == Abs(hedge_diff) > HedgeThreshold

\* the arguments of Signal(...) for the hedge: no stop_loss is passed
HedgeSignalArgs(hedge_diff) ==
    HedgeSignal("hedge", "FUTURE", IF hedge_diff > 0 THEN "SHORT" ELSE "LONG",
                Abs(hedge_diff), NoneV)

InitHedge ==
    /\ hin \in HedgeInputs
    /\ hout = "pending"
    /\ hret = <<>>

HedgeIdle ==
    /\ hin = [has_portfolio |-> FALSE, positions |-> {}, signals |-> <<>>]
    /\ hout = "idle"
    /\ hret = <<>>

\* hedge_agent_node: the whole call; Signal(...) validates its arguments
HedgeAgentNode ==
    /\ UNCHANGED notHedge
    /\ hout = "pending"
    /\ LET hedge_diff == CurrentSpotQty(hin) - CurrentHedgeQty(hin)
           args == HedgeSignalArgs(hedge_diff)
       IN  IF NeedsHedge(hedge_diff)
           THEN IF Construct(args) = "ok"
                THEN /\ hout' = "returned"
                     /\ hret' = Append(hin.signals, args)
                ELSE /\ hout' = "ValidationError"
                     /\ hret' = hret
           ELSE /\ hout' = "returned"
                /\ hret' = hin.signals
    /\ hin' = hin

NextHedge == HedgeAgentNode

(***************************************************************************)
(* Momentum strategy and the trading loop                                  *)
(***************************************************************************)
ENTRY_ADX_THRESHOLD == 25
ENTRY_RSI_LONG_MIN == 50
ENTRY_RSI_LONG_MAX == 70
ENTRY_RSI_SHORT_MIN == 30
ENTRY_RSI_SHORT_MAX == 50
MAINTAIN_ADX_THRESHOLD == 20
MAINTAIN_RSI_LONG_MIN == 45
MAINTAIN_RSI_LONG_MAX == 80
MAINTAIN_RSI_SHORT_MIN == 20
MAINTAIN_RSI_SHORT_MAX == 55

\* iterations of run_trading_loop that are explored
MaxIterations == 3

\* MarketFeatures as the momentum node reads them; prices in hundredths
MomentumFeatures ==
    [price : {9500, 10800, 11500},
     ema_9 : {NoneV, 10000, 11000},
     ema_50 : {NoneV, 10500},
     ema_200 : {NoneV, 9000, 12000},
     adx : {NoneV, 15, 22, 30},
     rsi : {NoneV, 0, 40, 48, 60, 75},
     atr : {NoneV, 200},
     ofi_sma : {NoneV, 6},
     bollinger_upper : {NoneV, 12000}]

\* the features the graph computes in the iterations of the loop
LoopFeatures ==
    {f \in MomentumFeatures :
        /\ f.ema_9 # NoneV /\ f.ema_50 # NoneV /\ f.ema_200 = NoneV
        /\ f.price # 10800 /\ f.adx \in {22, 30} /\ f.rsi \in {48, 60}
        /\ f.atr # NoneV /\ f.ofi_sma = NoneV /\ f.bollinger_upper # NoneV}

NoFeatures ==
    [price |-> 9500, ema_9 |-> NoneV, ema_50 |-> NoneV, ema_200 |-> NoneV,
     adx |-> NoneV, rsi |-> NoneV, atr |-> NoneV, ofi_sma |-> NoneV,
     bollinger_upper |-> NoneV]

\* the Signal(...) arguments of the momentum node; strength and confidence
\* in tenths
MomentumSignal(dir, st, conf, sl, tp, tsd, why) ==
    [direction |-> dir, strength |-> st, confidence |-> conf,
     stop_loss |-> sl, take_profit |-> tp, trailing_stop_distance |-> tsd,
     reasoning |-> why]

NoMomentumSignal == MomentumSignal("NEUTRAL", 0, 0, NoneV, NoneV, NoneV, "none")

\* state.get("signal") when the key is absent or None
NoPreviousSignal == MomentumSignal("-", 0, 0, NoneV, NoneV, NoneV, "None")

\* values of state["signal"] a caller can hand to the node
PreviousSignals ==
    {NoPreviousSignal,
     MomentumSignal("LONG", 5, 8, 9000, NoneV, 600, "ENTRY LONG"),
     MomentumSignal("SHORT", 5, 8, 12000, NoneV, 600, "ENTRY SHORT"),
     MomentumSignal("NEUTRAL", 0, 0, NoneV, NoneV, NoneV, "EXIT LONG")}

\* initial_state["signal"] of run_trading_loop
InitialStateSignal == NoPreviousSignal

CurrentDirection_Ignored(previous_signal) == "NEUTRAL"

\* previous_signal.direction if previous_signal else "NEUTRAL"
CurrentDirection(previous_signal) ==
    IF previous_signal = NoPreviousSignal
    THEN "NEUTRAL" ELSE previous_signal.direction

\* not features.ema_9 or not features.ema_50
InsufficientFeatures(f) == ~Truthy(f.ema_9) \/ ~Truthy(f.ema_50)

AdxThreshold(current_direction) ==
    IF current_direction # "NEUTRAL"
    THEN MAINTAIN_ADX_THRESHOLD ELSE ENTRY_ADX_THRESHOLD

\* if adx and adx < adx_threshold
RegimeFiltered(f, current_direction) ==
    Truthy(f.adx) /\ f.adx < AdxThreshold(current_direction)

IsBullTrend(f) == IF Truthy(f.ema_200) THEN f.price > f.ema_200 ELSE TRUE

IsBearTrend(f) == IF Truthy(f.ema_200) THEN f.price < f.ema_200 ELSE TRUE

\* (rsi is not None and lo < rsi < hi) if rsi else True
RsiInside(rsi, lo, hi) == IF Truthy(rsi) THEN lo < rsi /\ rsi < hi ELSE TRUE

\* atr_val * 3.0 with atr_val = atr if atr else price * 0.01
TrailingStopDistance(f) ==
    IF Truthy(f.atr) THEN f.atr * 3 ELSE (f.price * 3) \div 100

\* min(abs(ema_diff_pct) / 2.0, 1.0), in tenths, rounded down
EntryStrength(f) ==
    LET d == IF f.ema_9 > f.ema_50 THEN f.ema_9 - f.ema_50
             ELSE f.ema_50 - f.ema_9
    IN  Min2((d * 1000) \div (f.ema_50 * 2), 10)

\* direction, strength, confidence and reasoning chosen by the momentum logic
MomentumDecision(f, previous_signal) ==
    LET cur == CurrentDirection(previous_signal)
        neutral == [direction |-> "NEUTRAL", strength |-> 0, confidence |-> 0,
                    reasoning |-> ""]
    IN  IF cur = "LONG"
        THEN IF f.ema_9 > f.ema_50
                /\ RsiInside(f.rsi, MAINTAIN_RSI_LONG_MIN, MAINTAIN_RSI_LONG_MAX)
             THEN [direction |-> "LONG", strength |-> previous_signal.strength,
                   confidence |-> 9, reasoning |-> "MAINTAIN LONG"]
             ELSE [neutral EXCEPT !.reasoning = "EXIT LONG"]
        ELSE IF cur = "SHORT"
        THEN IF f.ema_9 < f.ema_50
                /\ RsiInside(f.rsi, MAINTAIN_RSI_SHORT_MIN, MAINTAIN_RSI_SHORT_MAX)
             THEN [direction |-> "SHORT", strength |-> previous_signal.strength,
                   confidence |-> 9, reasoning |-> "MAINTAIN SHORT"]
             ELSE [neutral EXCEPT !.reasoning = "EXIT SHORT"]
        ELSE IF f.ema_9 > f.ema_50 /\ f.price > f.ema_9
        THEN IF IsBullTrend(f)
                /\ RsiInside(f.rsi, ENTRY_RSI_LONG_MIN, ENTRY_RSI_LONG_MAX)
             THEN [direction |-> "LONG", strength |-> EntryStrength(f),
                   confidence |->
                       IF Truthy(f.ofi_sma) /\ f.ofi_sma > 5 THEN 9 ELSE 8,
                   reasoning |-> "ENTRY LONG"]
             ELSE neutral
        ELSE IF f.ema_9 < f.ema_50 /\ f.price < f.ema_9
        THEN IF IsBearTrend(f)
                /\ RsiInside(f.rsi, ENTRY_RSI_SHORT_MIN, ENTRY_RSI_SHORT_MAX)
             THEN [direction |-> "SHORT", strength |-> EntryStrength(f),
                   confidence |->
                       IF Truthy(f.ofi_sma) /\ f.ofi_sma < -5 THEN 9 ELSE 8,
                   reasoning |-> "ENTRY SHORT"]
             ELSE neutral
        ELSE neutral

\* stop_loss and take_profit of the emitted signal
MomentumExits(f, previous_signal, direction) ==
    LET cur == CurrentDirection(previous_signal)
        fresh == IF direction = "LONG"
                 THEN f.price - TrailingStopDistance(f)
                 ELSE f.price + TrailingStopDistance(f)
    IN  IF direction \notin {"LONG", "SHORT"}
        THEN [stop_loss |-> NoneV, take_profit |-> NoneV, tsd |-> NoneV]
        ELSE IF cur = "NEUTRAL"
        THEN [stop_loss |-> fresh, take_profit |-> NoneV,
              tsd |-> TrailingStopDistance(f)]
        ELSE IF previous_signal # NoPreviousSignal
                /\ Truthy(previous_signal.stop_loss)
        THEN [stop_loss |-> previous_signal.stop_loss,
              take_profit |-> previous_signal.take_profit,
              tsd |-> TrailingStopDistance(f)]
        ELSE [stop_loss |-> fresh, take_profit |-> NoneV,
              tsd |-> TrailingStopDistance(f)]

\* the arguments of the Signal that momentum_strategy_node builds
MomentumSignalArgs(f, previous_signal) ==
    IF InsufficientFeatures(f)
    THEN MomentumSignal("NEUTRAL", 0, 0, NoneV, NoneV, NoneV,
                        "Insufficient feature data")
    ELSE IF RegimeFiltered(f, CurrentDirection(previous_signal))
    THEN MomentumSignal("NEUTRAL", 0, 0, NoneV, NoneV, NoneV, "Regime Filter")
    ELSE LET d == MomentumDecision(f, previous_signal)
             x == MomentumExits(f, previous_signal, d.direction)
         IN  MomentumSignal(d.direction, d.strength, d.confidence,
                            x.stop_loss, x.take_profit, x.tsd, d.reasoning)

InitMomentum ==
    /\ mfeat \in MomentumFeatures
    /\ mprev \in PreviousSignals
    /\ mpc = "node"
    /\ msig = NoMomentumSignal
    /\ miter = 1
    /\ mlast = "none"
    /\ iter_duration = "unbound"
    /\ lstop = "running"

MomentumIdle ==
    /\ mfeat = NoFeatures
    /\ mprev = NoPreviousSignal
    /\ mpc = "idle"
    /\ msig = NoMomentumSignal
    /\ miter = 0
    /\ mlast = "none"
    /\ iter_duration = "unbound"
    /\ lstop = "running"

\* run_trading_loop before its first iteration
InitLoop ==
    /\ mfeat = NoFeatures
    /\ mprev = InitialStateSignal
    /\ mpc = "loop"
    /\ msig = NoMomentumSignal
    /\ miter = 0
    /\ mlast = "none"
    /\ iter_duration = "unbound"
    /\ lstop = "running"

\* momentum_strategy_node: the whole call; Signal(...) validates its arguments
MomentumStrategyNode ==
    /\ UNCHANGED notMomentum
    /\ mpc = "node"
    /\ LET args == MomentumSignalArgs(mfeat, mprev)
       IN  IF Construct(args) = "ok"
           THEN /\ msig' = args
                /\ mpc' = "returned"
           ELSE /\ msig' = msig
                /\ mpc' = "ValidationError"
    /\ UNCHANGED <<mfeat, mprev, miter, mlast, iter_duration, lstop>>

\* the top of the while loop of run_trading_loop up to the strategy node:
\* the limits are checked, the state is rebuilt from initial_state, and the
\* graph either raises in an earlier node or computes the features and routes
\* to the momentum strategy
LoopIterate ==
    /\ UNCHANGED notMomentum
    /\ mpc = "loop"
    /\ miter' = miter + 1
    /\ \/ /\ miter + 1 > MaxIterations
          /\ lstop' = "max_iterations" /\ mpc' = "stopped"
          /\ UNCHANGED <<mfeat, mprev, msig>>
       \/ /\ miter + 1 <= MaxIterations
          /\ \/ /\ lstop' = "time_limit" /\ mpc' = "stopped"
                /\ UNCHANGED <<mfeat, mprev, msig>>
             \/ /\ lstop' = lstop
                /\ mprev' = InitialStateSignal
                /\ msig' = NoMomentumSignal
                /\ \/ mfeat' \in LoopFeatures /\ mpc' = "node"
                   \/ mfeat' = NoFeatures /\ mpc' = "graph_raised"
    /\ UNCHANGED <<mlast, iter_duration>>

\* the local iter_duration after the iteration's try / except
DurationAfter(outcome, before) ==
    IF outcome = "returned" THEN "bound" ELSE before

\* the rest of the iteration: the try body after ainvoke or the except
\* handler, then the completion log line and the sleep
IterationEnd ==
    /\ UNCHANGED notMomentum
    /\ mpc \in {"returned", "ValidationError", "graph_raised"}
    /\ iter_duration' = DurationAfter(mpc, iter_duration)
    /\ mlast' = IF mpc = "returned" THEN msig.direction ELSE mlast
    /\ IF DurationAfter(mpc, iter_duration) = "unbound"
       THEN lstop' = "UnboundLocalError" /\ mpc' = "stopped"
       ELSE lstop' = lstop /\ mpc' = "loop"
    /\ UNCHANGED <<mfeat, mprev, msig, miter>>

\* Ctrl+C while the loop awaits the graph or the sleep
Interrupt ==
    /\ UNCHANGED notMomentum
    /\ mpc \in {"loop", "node"}
    /\ miter > 0
    /\ lstop' = "KeyboardInterrupt" /\ mpc' = "stopped"
    /\ UNCHANGED <<mfeat, mprev, msig, miter, mlast, iter_duration>>

NextMomentum == MomentumStrategyNode

NextLoop == LoopIterate \/ MomentumStrategyNode \/ IterationEnd \/ Interrupt

(***************************************************************************)
(* Mean-reversion strategy                                                 *)
(***************************************************************************)
bollinger_period == 20
rsi_oversold == 30
rsi_overbought == 70

\* the state given to mean_reversion_strategy_node.  Prices in hundredths;
\* has_bands: features.bollinger_upper/mid/lower are set (BandLower, BandMid,
\* BandUpper); nklines: len(state["klines"]); prev_close: klines[-2].close;
\* prev_lower, prev_upper: what compute_bollinger_bands returns for the
\* closes of klines[-(period+1):-1]
BandLower == 9000
BandMid == 10000
BandUpper == 11000

MeanReversionInputs ==
    [price : {8900, 9100, 10000, 11100},
     rsi : {NoneV, 25, 35, 45, 65, 75},
     has_bands : BOOLEAN,
     ofi : {NoneV, -5, 0, 5},
     nklines : {1, bollinger_period, bollinger_period + 1},
     prev_close : {8800, 10000, 11200},
     prev_lower : {9000},
     prev_upper : {11000}]

\* the Signal(...) arguments of the mean-reversion node; strength and
\* confidence in hundredths; key: the state key the signal is returned under
MeanReversionSignal(key, dir, st, conf, sl, tp, why) ==
    [key |-> key, direction |-> dir, strength |-> st, confidence |-> conf,
     stop_loss |-> sl, take_profit |-> tp, reasoning |-> why]

NoMeanReversionSignal ==
    MeanReversionSignal("-", "NEUTRAL", 0, 0, NoneV, NoneV, "none")

\* features.rsi is None or features.bollinger_upper is None
InsufficientData(x) == x.rsi = NoneV \/ ~x.has_bands

\* len(klines) >= 2 and len(klines) >= settings.bollinger_period + 1
HasPreviousBands(x) == x.nklines >= 2 /\ x.nklines >= bollinger_period + 1

RsiThresholdLong_Strict == rsi_oversold

\* settings.rsi_oversold + 10
RsiThresholdLong == rsi_oversold + 10

RsiThresholdShort_Strict == rsi_overbought

\* settings.rsi_overbought - 10
RsiThresholdShort == rsi_overbought - 10

\* was_below and is_above and rsi < rsi_threshold_long
LongSetup(x) ==
    /\ HasPreviousBands(x)
    /\ x.prev_close < x.prev_lower
    /\ x.price > BandLower
    /\ x.rsi < RsiThresholdLong

\* was_above and is_below and rsi > rsi_threshold_short
ShortSetup(x) ==
    /\ HasPreviousBands(x)
    /\ x.prev_close > x.prev_upper
    /\ x.price < BandUpper
    /\ x.rsi > RsiThresholdShort

\* the locals after the LONG SIGNAL block
AfterLongBlock(x) ==
    LET start == MeanReversionSignal("signals", "NEUTRAL", 0, 0, NoneV, NoneV, "")
    IN  IF ~LongSetup(x) THEN start
        ELSE LET exits == [start EXCEPT !.take_profit = BandMid,
                                        !.stop_loss = (x.price * 98) \div 100]
             IN  IF x.ofi # NoneV /\ x.ofi > 0
                 THEN [exits EXCEPT !.direction = "LONG", !.strength = 90,
                                    !.confidence = 90,
                                    !.reasoning = "Long (Confirmed)"]
                 ELSE IF x.ofi = NoneV
                 THEN [exits EXCEPT !.direction = "LONG", !.strength = 70,
                                    !.confidence = 75,
                                    !.reasoning = "Long (Unconfirmed)"]
                 ELSE [exits EXCEPT !.reasoning = "Long Rejected"]

\* the locals after the SHORT SIGNAL block
AfterShortBlock(x) ==
    LET start == AfterLongBlock(x)
    IN  IF ~ShortSetup(x) THEN start
        ELSE LET exits == [start EXCEPT !.take_profit = BandMid,
                                        !.stop_loss = (x.price * 102) \div 100]
             IN  IF x.ofi # NoneV /\ x.ofi < 0
                 THEN [exits EXCEPT !.direction = "SHORT", !.strength = 90,
                                    !.confidence = 90,
                                    !.reasoning = "Short (Confirmed)"]
                 ELSE IF x.ofi = NoneV
                 THEN [exits EXCEPT !.direction = "SHORT", !.strength = 70,
                                    !.confidence = 75,
                                    !.reasoning = "Short (Unconfirmed)"]
                 ELSE [exits EXCEPT !.direction = "NEUTRAL",
                                    !.reasoning = "Short Rejected"]

\* if direction == "NEUTRAL": the reasoning given near or inside the bands
NeutralReasoning(x, s) ==
    IF s.direction # "NEUTRAL" THEN s
    ELSE IF x.price < BandLower
    THEN [s EXCEPT !.reasoning = "below lower band, waiting for confirmation"]
    ELSE IF x.price > BandUpper
    THEN [s EXCEPT !.reasoning = "above upper band, waiting for confirmation"]
    ELSE [s EXCEPT !.reasoning = "In range", !.confidence = 50]

\* the arguments of the Signal that mean_reversion_strategy_node builds
MeanReversionSignalArgs(x) ==
    IF InsufficientData(x)
    THEN MeanReversionSignal("signal", "NEUTRAL", 0, 0, NoneV, NoneV,
                             "Insufficient feature data (RSI/BB missing)")
    ELSE NeutralReasoning(x, AfterShortBlock(x))

InitMeanReversion ==
    /\ mrin \in MeanReversionInputs
    /\ mrpc = "node"
    /\ mrout = NoMeanReversionSignal

MeanReversionIdle ==
    /\ mrin = [price |-> 10000, rsi |-> NoneV, has_bands |-> FALSE,
               ofi |-> NoneV, nklines |-> 1, prev_close |-> 10000,
               prev_lower |-> 9000, prev_upper |-> 11000]
    /\ mrpc = "idle"
    /\ mrout = NoMeanReversionSignal

\* mean_reversion_strategy_node: the whole call; Signal(...) validates its
\* arguments
MeanReversionStrategyNode ==
    /\ UNCHANGED notMeanReversion
    /\ mrpc = "node"
    /\ LET args == MeanReversionSignalArgs(mrin)
       IN  IF check_exits(args.direction, args.stop_loss)
           THEN /\ mrout' = args
                /\ mrpc' = "returned"
           ELSE /\ mrout' = mrout
                /\ mrpc' = "ValidationError"
    /\ mrin' = mrin

NextMeanReversion == MeanReversionStrategyNode

(***************************************************************************)
(* Feature engine                                                          *)
(***************************************************************************)
\* The buffers of FeatureEngine are modelled by their lengths, and an
\* indicator value by the length of the list it was computed from: <<>> is
\* None, <<n>> a value computed from n samples.  The OFI is modelled by its
\* value: <<>> is None, <<v>> the value v.
ema_short_period == 9
ema_long_period == 50
Ema200Period == 200
volatility_lookback == 20
atr_period == 14
rsi_period == 14
AdxPeriod == 14
OfiBufferLen == 5
CloseLookbackMin == 50
lookback_needed == 200

\* calls on the engine that are explored
MaxUpdates == 4

Max2(a, b) == IF a >= b THEN a ELSE b

\* deque(maxlen=...).append, k times
Appended(len, k, maxlen) == Min2(len + k, maxlen)

\* max(settings.volatility_lookback, settings.bollinger_period)
MaxPriceLookback == Max2(volatility_lookback, bollinger_period)

\* max(settings.atr_period, settings.rsi_period + 1, 50)
MaxCloseLookback == Max2(Max2(atr_period, rsi_period + 1), CloseLookbackMin)

\* state["orderbook"]: None, a book with an empty side, or best bid and ask
NoBook == [kind |-> "none", bid_p |-> 0, bid_q |-> 0, ask_p |-> 0, ask_q |-> 0]

EmptyBook == [kind |-> "empty", bid_p |-> 0, bid_q |-> 0, ask_p |-> 0, ask_q |-> 0]

Book(bp, bq, ap, aq) ==
    [kind |-> "book", bid_p |-> bp, bid_q |-> bq, ask_p |-> ap, ask_q |-> aq]

OrderBooks ==
    {Book(b[1], b[2], a[1], a[2]) :
        b \in {<<50000, 1>>, <<50005, 1>>, <<50005, 2>>},
        a \in {<<50010, 1>>, <<50008, 1>>, <<50008, 2>>}}

\* len(state["klines"]) of a tick
KlineCounts == {0, 1, 2, 14, 20, 200}

\* FeatureEngine.__init__
NewEngine ==
    [ema_9_buffer |-> 0, ema_50_buffer |-> 0, ema_200_buffer |-> 0,
     price_buffer |-> 0, bar_buffer |-> 0, ofi_buffer |-> 0,
     ema_9 |-> <<>>, ema_50 |-> <<>>, ema_200 |-> <<>>, ofi_sma |-> <<>>,
     prev_orderbook |-> NoBook]

\* state["features"] before the first tick
NoFeatureVector ==
    [ema_9 |-> <<>>, ema_50 |-> <<>>, ema_200 |-> <<>>, atr |-> <<>>,
     realized_volatility |-> <<>>, rsi |-> <<>>, bollinger |-> <<>>,
     adx |-> <<>>, ofi |-> <<>>, ofi_sma |-> <<>>]

\* FeatureEngine.update_ema
update_ema(e) ==
    LET b9 == Appended(e.ema_9_buffer, 1, ema_short_period * 2)
        b50 == Appended(e.ema_50_buffer, 1, ema_long_period * 2)
        b200 == Appended(e.ema_200_buffer, 1, Ema200Period * 2)
    IN  [e EXCEPT !.ema_9_buffer = b9, !.ema_50_buffer = b50,
                  !.ema_200_buffer = b200,
                  !.ema_9 = IF b9 >= ema_short_period THEN <<b9>> ELSE @,
                  !.ema_50 = IF b50 >= ema_long_period THEN <<b50>> ELSE @,
                  !.ema_200 = IF b200 >= Ema200Period THEN <<b200>> ELSE @]

\* FeatureEngine.update_ofi
update_ofi(e, ofi_val) ==
    IF ofi_val = <<>> THEN e
    ELSE LET n == Appended(e.ofi_buffer, 1, OfiBufferLen)
         IN  [e EXCEPT !.ofi_buffer = n,
                       !.ofi_sma = IF n > 0 THEN <<n>> ELSE @]

\* FeatureEngine.compute_atr
compute_atr(e) ==
    IF e.bar_buffer < atr_period THEN <<>> ELSE <<e.bar_buffer>>

\* FeatureEngine.compute_realized_volatility
compute_realized_volatility(e) ==
    IF e.price_buffer < 2 THEN <<>> ELSE <<e.price_buffer>>

\* FeatureEngine.compute_rsi on the close buffer
compute_rsi(n, period) == IF n < period + 1 THEN <<>> ELSE <<n>>

\* FeatureEngine.compute_bollinger_bands on the price buffer
compute_bollinger_bands(n, period) == IF n < period THEN <<>> ELSE <<n>>

\* FeatureEngine.compute_adx
compute_adx(e, period) ==
    IF e.bar_buffer < period * 2 THEN <<>> ELSE <<e.bar_buffer>>

compute_ofi_CurrentQty(e, current) ==
    LET prev == e.prev_orderbook
    IN  IF prev.kind = "none" THEN <<>>
        ELSE IF current.kind = "empty" \/ prev.kind = "empty" THEN <<>>
        ELSE LET bid_impact ==
                     IF current.bid_p > prev.bid_p THEN current.bid_q
                     ELSE IF current.bid_p < prev.bid_p THEN -current.bid_q
                     ELSE current.bid_q - prev.bid_q
                 ask_impact ==
                     IF current.ask_p < prev.ask_p THEN current.ask_q
                     ELSE IF current.ask_p > prev.ask_p THEN -current.ask_q
                     ELSE current.ask_q - prev.ask_q
             IN  <<bid_impact - ask_impact>>

\* FeatureEngine.compute_ofi
compute_ofi(e, current) ==
    LET prev == e.prev_orderbook
    IN  IF prev.kind = "none" THEN <<>>
        ELSE IF current.kind = "empty" \/ prev.kind = "empty" THEN <<>>
        ELSE LET bid_impact ==
                     IF current.bid_p > prev.bid_p THEN current.bid_q
                     ELSE IF current.bid_p < prev.bid_p THEN -prev.bid_q
                     ELSE current.bid_q - prev.bid_q
                 ask_impact ==
                     IF current.ask_p < prev.ask_p THEN current.ask_q
                     ELSE IF current.ask_p > prev.ask_p THEN -prev.ask_q
                     ELSE current.ask_q - prev.ask_q
             IN  <<bid_impact - ask_impact>>

\* current_price is non-zero: the book has a mid price, or there are trades
\* or klines
HasCurrentPrice(nk, book, has_trades) ==
    book.kind = "book" \/ has_trades \/ nk > 0

\* the engine after the buffers are fed from klines[-lookback_needed:] and
\* the EMAs are set from the closes of the tick and by update_ema
EngineAfterKlines(e, nk) ==
    LET fed == Min2(nk, lookback_needed)
        buffers ==
            [e EXCEPT !.bar_buffer = Appended(@, fed, MaxCloseLookback),
                      !.price_buffer = Appended(@, fed, MaxPriceLookback),
                      !.ema_200_buffer = Appended(@, fed, Ema200Period * 2)]
        fromCloses ==
            [buffers EXCEPT
                !.ema_9 = IF nk >= ema_short_period
                          THEN <<ema_short_period>> ELSE @,
                !.ema_50 = IF nk >= ema_long_period
                           THEN <<ema_long_period>> ELSE @,
                !.ema_200 = IF nk >= Ema200Period
                            THEN <<Ema200Period>> ELSE @]
    IN  update_ema(fromCloses)

\* the MarketFeatures built at the end of the tick
FeatureVector(e, book) ==
    [ema_9 |-> e.ema_9, ema_50 |-> e.ema_50, ema_200 |-> e.ema_200,
     atr |-> compute_atr(e),
     realized_volatility |-> compute_realized_volatility(e),
     rsi |-> compute_rsi(e.bar_buffer, rsi_period),
     bollinger |-> compute_bollinger_bands(e.price_buffer, bollinger_period),
     adx |-> compute_adx(e, AdxPeriod),
     ofi |-> IF book.kind # "none" THEN compute_ofi(e, book) ELSE <<>>,
     ofi_sma |-> <<>>]

InitFeatures ==
    /\ engine = NewEngine
    /\ ffeat = NoFeatureVector
    /\ fsteps = 0
    /\ fin = [op |-> "none", book |-> NoBook, prev |-> NoBook]

\* compute_features_node with nk klines, the given order book and trades
ComputeFeaturesNode(nk, book, has_trades) ==
    /\ UNCHANGED notFeatures
    /\ fsteps < MaxUpdates
    /\ fsteps' = fsteps + 1
    /\ IF ~HasCurrentPrice(nk, book, has_trades)
       THEN /\ engine' = engine
            /\ ffeat' = NoFeatureVector
            /\ fin' = [op |-> "unpriced", book |-> book,
                       prev |-> engine.prev_orderbook]
       ELSE LET e == EngineAfterKlines(engine, nk)
            IN  /\ ffeat' = FeatureVector(e, book)
                /\ engine' = IF book.kind # "none"
                             THEN [e EXCEPT !.prev_orderbook = book] ELSE e
                /\ fin' = [op |-> "tick", book |-> book,
                           prev |-> engine.prev_orderbook]

\* ticks that differ in the number of klines
KlineTick ==
    \E nk \in KlineCounts, book \in {NoBook, Book(50000, 1, 50010, 1)},
       has_trades \in BOOLEAN :
        /\ has_trades => (nk = 0 /\ book.kind # "book")
        /\ ComputeFeaturesNode(nk, book, has_trades)

\* ticks that differ in the order book
BookTick ==
    \E nk \in {0, 1}, book \in OrderBooks \cup {NoBook, EmptyBook},
       has_trades \in BOOLEAN :
        /\ has_trades => (nk = 0 /\ book.kind # "book")
        /\ ComputeFeaturesNode(nk, book, has_trades)

\* a direct call of feature_engine.update_ema
UpdateEma ==
    /\ UNCHANGED notFeatures
    /\ fsteps < MaxUpdates
    /\ fsteps' = fsteps + 1
    /\ engine' = update_ema(engine)
    /\ fin' = [op |-> "update_ema", book |-> NoBook,
               prev |-> engine.prev_orderbook]
    /\ ffeat' = ffeat

\* a direct call of feature_engine.update_ofi
UpdateOfi ==
    /\ UNCHANGED notFeatures
    /\ fsteps < MaxUpdates
    /\ fsteps' = fsteps + 1
    /\ \E ofi_val \in {<<>>, <<1>>} : engine' = update_ofi(engine, ofi_val)
    /\ fin' = [op |-> "update_ofi", book |-> NoBook,
               prev |-> engine.prev_orderbook]
    /\ ffeat' = ffeat

NextFeatures == KlineTick \/ UpdateEma \/ UpdateOfi

NextOfi == BookTick

(***************************************************************************)
(* execution_agent_node: the loop over the approved orders                 *)
(***************************************************************************)
\* longest list of approved orders that is explored
MaxOrders == 3

\* the orders of a batch: one per execution style
BatchOrders ==
    {MkOrder("BUY", "MARKET", OrderQty, NoneV, NoneV, 95, NoneV, st) :
        st \in {"PASSIVE", "AGGRESSIVE"}}

\* state["approved_orders"]
Batches ==
    UNION {[1..n -> BatchOrders] : n \in 0..MaxOrders}

\* what smart_execute_order / safe_execute_order can do for one order:
\* return a result or raise
ExecutionOutcomes ==
    {Raised,
     Res(TRUE, TRUE, "FILLED", OrderQty),
     Res(TRUE, TRUE, "NEW", 0),
     Res(FALSE, FALSE, "FAILED", 0)}

\* the function the loop awaits for an order
Executor(o) ==
    IF o.execution_style = "PASSIVE"
    THEN "smart_execute_order" ELSE "safe_execute_order"

ErrorResult_Failed == Res(FALSE, FALSE, "FAILED", 0)

\* ExecutionResult(success=False, status="ERROR", error_message=str(e))
ErrorResult == Res(FALSE, FALSE, "ERROR", 0)

InitBatch ==
    /\ approved \in Batches
    /\ bpc = "start"
    /\ bidx = 0
    /\ execution_results = <<>>
    /\ blog = <<>>
    /\ bout = <<>>

BatchIdle ==
    /\ approved = <<>>
    /\ bpc = "idle"
    /\ bidx = 0
    /\ execution_results = <<>>
    /\ blog = <<>>
    /\ bout = <<>>

\* if not approved_orders: return with execution_results = []
BatchEmpty ==
    /\ UNCHANGED notBatch
    /\ bpc = "start"
    /\ approved = <<>>
    /\ bpc' = "returned"
    /\ UNCHANGED <<approved, bidx, execution_results, blog, bout>>

\* the loop takes the next order and awaits its executor
BatchExecute ==
    /\ UNCHANGED notBatch
    /\ bpc \in {"start", "loop"}
    /\ bidx < Len(approved)
    /\ bidx' = bidx + 1
    /\ blog' = Append(blog, [index |-> bidx + 1,
                             call |-> Executor(approved[bidx + 1])])
    /\ bpc' = "awaiting"
    /\ UNCHANGED <<approved, execution_results, bout>>

\* the executor returns or raises; the result, or the error result built by
\* the except clause, is appended
BatchResult ==
    /\ UNCHANGED notBatch
    /\ bpc = "awaiting"
    /\ \E out \in ExecutionOutcomes :
        /\ bout' = Append(bout, out)
        /\ execution_results' =
              Append(execution_results, IF out.raised THEN ErrorResult ELSE out)
    /\ bpc' = "loop"
    /\ UNCHANGED <<approved, bidx, blog>>

\* the loop is exhausted: the node returns execution_results
BatchReturn ==
    /\ UNCHANGED notBatch
    /\ bpc = "loop"
    /\ bidx = Len(approved)
    /\ bpc' = "returned"
    /\ UNCHANGED <<approved, bidx, execution_results, blog, bout>>

NextBatch == BatchEmpty \/ BatchExecute \/ BatchResult \/ BatchReturn

(***************************************************************************)
(* StateManager: save_state and load_state on one key                      *)
(***************************************************************************)
StateValues == 1..MaxStateValue

\* json.dump(data, f): the text of a state, as the chunks it is written in
Encode(v) == [k \in 1..ChunkCount |-> v]

\* json.load(f): the state a complete text stands for; anything else raises
\* and load_state returns None
Decode(text) ==
    IF Len(text) = ChunkCount /\ \A k \in 1..Len(text) : text[k] = text[1]
    THEN text[1] ELSE NoneV

TempPath_InPlace(file_path) == file_path

\* temp_path = file_path.with_suffix(".tmp")
TempPath(file_path) == "tmp"

\* open(path, 'w'): the inode behind the path, created when the path is absent
OpenForWrite(path) ==
    IF paths[path] = 0 THEN Len(fs) + 1 ELSE paths[path]

\* the files after open(path, 'w'): the path's file exists and is empty
Truncated(path) ==
    IF paths[path] = 0 THEN Append(fs, <<>>) ELSE [fs EXCEPT ![paths[path]] = <<>>]

\* Path.replace(dst): the rename of src over dst
Replaced(src, dst) ==
    IF src = dst THEN paths ELSE [paths EXCEPT ![dst] = paths[src], ![src] = 0]

\* the except handler: temp_path.unlink() if it exists, errors swallowed
Unlinked(path, d) ==
    IF d[path] = 0 THEN {d} ELSE {d, [d EXCEPT ![path] = 0]}

\* the state the target holds, None when there is no file
Stored == IF paths["target"] = 0 THEN NoneV ELSE Decode(fs[paths["target"]])

InitPersist ==
    /\ \/ fs = <<>> /\ paths = [target |-> 0, tmp |-> 0]
       \/ \E v \in StateValues :
            fs = <<Encode(v)>> /\ paths = [target |-> 1, tmp |-> 0]
    /\ spc = "ready" /\ sdata = NoneV /\ sfd = 0 /\ sret = "none"
    /\ sprev = <<0, <<>>>> /\ saves = 0
    /\ lpc = "ready" /\ lfd = 0 /\ lret = <<>> /\ lseen = {}

PersistIdle ==
    /\ fs = <<>> /\ paths = [target |-> 0, tmp |-> 0]
    /\ spc = "off" /\ sdata = NoneV /\ sfd = 0 /\ sret = "none"
    /\ sprev = <<0, <<>>>> /\ saves = 0
    /\ lpc = "off" /\ lfd = 0 /\ lret = <<>> /\ lseen = {}

\* save_state leaves through its except handler and returns False
SaveFails(d, files) ==
    /\ paths' \in Unlinked(TempPath("target"), d)
    /\ fs' = files
    /\ spc' = "ready" /\ sret' = "False" /\ sfd' = 0
    /\ UNCHANGED <<sdata, sprev, saves, lseen>>

\* save_state(key, data) up to open(temp_path, 'w')
SaveOpen ==
    /\ UNCHANGED notPersist
    /\ spc = "ready"
    /\ saves < MaxSaves
    /\ \E v \in StateValues :
        /\ sdata' = v
        /\ saves' = saves + 1
        /\ sprev' = <<paths["target"],
                     IF paths["target"] = 0 THEN <<>> ELSE fs[paths["target"]]>>
        /\ \/ /\ sfd' = OpenForWrite(TempPath("target"))
              /\ fs' = Truncated(TempPath("target"))
              /\ paths' = [paths EXCEPT ![TempPath("target")] = OpenForWrite(TempPath("target"))]
              /\ spc' = "writing" /\ sret' = "none"
              /\ lseen' = lseen
           \/ /\ paths' \in Unlinked(TempPath("target"), paths)
              /\ fs' = fs
              /\ spc' = "ready" /\ sret' = "False" /\ sfd' = 0
              /\ lseen' = lseen
    /\ UNCHANGED <<lpc, lfd, lret>>

\* one write of json.dump reaches the file, or raises
SaveWrite ==
    /\ UNCHANGED notPersist
    /\ spc = "writing"
    /\ LET n == Len(fs[sfd]) + 1
           written == [fs EXCEPT ![sfd] = Append(fs[sfd], Encode(sdata)[n])] IN
       \/ /\ fs' = written
          /\ spc' = IF n = ChunkCount THEN "written" ELSE "writing"
          /\ UNCHANGED <<paths, sdata, sfd, sret, sprev, saves, lseen>>
       \/ SaveFails(paths, fs)
    /\ UNCHANGED <<lpc, lfd, lret>>

\* the file is closed: temp_path.replace(file_path), return True
SaveReplace ==
    /\ UNCHANGED notPersist
    /\ spc = "written"
    /\ \/ /\ paths' = Replaced(TempPath("target"), "target")
          /\ spc' = "ready" /\ sret' = "True" /\ sfd' = 0
          /\ lseen' = IF lpc = "ready" THEN lseen ELSE lseen \cup {sdata}
          /\ UNCHANGED <<fs, sdata, sprev, saves>>
       \/ SaveFails(paths, fs)
    /\ UNCHANGED <<lpc, lfd, lret>>

\* load_state(key): if not file_path.exists(): return None
LoadExists ==
    /\ UNCHANGED notPersist
    /\ lpc = "ready"
    /\ lseen' = {Stored}
    /\ IF paths["target"] = 0
       THEN lpc' = "ready" /\ lret' = <<NoneV>>
       ELSE lpc' = "exists" /\ lret' = <<>>
    /\ lfd' = 0
    /\ UNCHANGED <<fs, paths, spc, sdata, sfd, sret, sprev, saves>>

\* open(file_path, 'r')
LoadOpen ==
    /\ UNCHANGED notPersist
    /\ lpc = "exists"
    /\ IF paths["target"] = 0
       THEN lpc' = "ready" /\ lret' = <<NoneV>> /\ lfd' = 0
       ELSE lpc' = "opened" /\ lret' = lret /\ lfd' = paths["target"]
    /\ UNCHANGED <<fs, paths, spc, sdata, sfd, sret, sprev, saves, lseen>>

\* return json.load(f), None when it raises
LoadRead ==
    /\ UNCHANGED notPersist
    /\ lpc = "opened"
    /\ lret' = <<Decode(fs[lfd])>>
    /\ lpc' = "ready"
    /\ UNCHANGED <<fs, paths, spc, sdata, sfd, sret, sprev, saves, lfd, lseen>>

NextPersist ==
    \/ SaveOpen
    \/ SaveWrite
    \/ SaveReplace
    \/ LoadExists
    \/ LoadOpen
    \/ LoadRead

(***************************************************************************)
(* Specifications                                                          *)
(***************************************************************************)
Init ==
    /\ InitExec /\ InitCB /\ SigIdle /\ RiskIdle
    /\ HedgeIdle /\ MomentumIdle /\ MeanReversionIdle /\ InitFeatures
    /\ BatchIdle /\ PersistIdle

Next == NextExec

\* the execution engine
Spec == Init /\ [][Next]_vars

InitBreaker ==
    /\ ExecIdle /\ InitCB /\ SigIdle /\ RiskIdle
    /\ HedgeIdle /\ MomentumIdle /\ MeanReversionIdle /\ InitFeatures
    /\ BatchIdle /\ PersistIdle

\* the resilience layer, with concurrent wrapped calls
SpecCB == InitBreaker /\ [][NextCB]_vars

InitSignal ==
    /\ ExecIdle /\ InitCB /\ InitSig /\ RiskIdle
    /\ HedgeIdle /\ MomentumIdle /\ MeanReversionIdle /\ InitFeatures
    /\ BatchIdle /\ PersistIdle

\* construction of a Signal
SpecSignal == InitSignal /\ [][NextSig]_vars

InitRiskManager ==
    /\ ExecIdle /\ InitCB /\ SigIdle /\ InitRisk
    /\ HedgeIdle /\ MomentumIdle /\ MeanReversionIdle /\ InitFeatures
    /\ BatchIdle /\ PersistIdle

\* one call of risk_management_node
SpecRisk == InitRiskManager /\ [][NextRisk]_vars

InitHedgeAgent ==
    /\ ExecIdle /\ InitCB /\ SigIdle /\ RiskIdle
    /\ InitHedge /\ MomentumIdle /\ MeanReversionIdle /\ InitFeatures
    /\ BatchIdle /\ PersistIdle

\* one call of hedge_agent_node
SpecHedge == InitHedgeAgent /\ [][NextHedge]_vars

InitMomentumNode ==
    /\ ExecIdle /\ InitCB /\ SigIdle /\ RiskIdle
    /\ HedgeIdle /\ InitMomentum /\ MeanReversionIdle /\ InitFeatures
    /\ BatchIdle /\ PersistIdle

\* one call of momentum_strategy_node
SpecMomentum == InitMomentumNode /\ [][NextMomentum]_vars

InitTradingLoop ==
    /\ ExecIdle /\ InitCB /\ SigIdle /\ RiskIdle
    /\ HedgeIdle /\ InitLoop /\ MeanReversionIdle /\ InitFeatures
    /\ BatchIdle /\ PersistIdle

\* run_trading_loop with the momentum strategy selected
SpecLoop == InitTradingLoop /\ [][NextLoop]_vars

InitMeanReversionNode ==
    /\ ExecIdle /\ InitCB /\ SigIdle /\ RiskIdle
    /\ HedgeIdle /\ MomentumIdle /\ InitMeanReversion /\ InitFeatures
    /\ BatchIdle /\ PersistIdle

\* one call of mean_reversion_strategy_node
SpecMeanReversion == InitMeanReversionNode /\ [][NextMeanReversion]_vars

InitFeatureEngine ==
    /\ ExecIdle /\ InitCB /\ SigIdle /\ RiskIdle
    /\ HedgeIdle /\ MomentumIdle /\ MeanReversionIdle /\ InitFeatures
    /\ BatchIdle /\ PersistIdle

\* the feature engine over ticks and direct updates
SpecFeatures == InitFeatureEngine /\ [][NextFeatures]_vars

\* the feature engine over ticks with varying order books
SpecOfi == InitFeatureEngine /\ [][NextOfi]_vars

InitExecutionBatch ==
    /\ ExecIdle /\ InitCB /\ SigIdle /\ RiskIdle
    /\ HedgeIdle /\ MomentumIdle /\ MeanReversionIdle /\ InitFeatures
    /\ InitBatch /\ PersistIdle

\* one call of execution_agent_node
SpecBatch == InitExecutionBatch /\ [][NextBatch]_vars

InitStateManager ==
    /\ ExecIdle /\ InitCB /\ SigIdle /\ RiskIdle
    /\ HedgeIdle /\ MomentumIdle /\ MeanReversionIdle /\ InitFeatures
    /\ BatchIdle /\ InitPersist

\* one StateManager key with a saver and a concurrent loader
SpecPersist == InitStateManager /\ [][NextPersist]_vars

(***************************************************************************)
(* Properties of the execution engine                                      *)
(***************************************************************************)
Finished == pc \in {"done", "raised"}

CallsOf(op) == SelectSeq(calls, LAMBDA c : c.op = op)

\* submissions of an order of type ot
Submitted(ot) ==
    SelectSeq(calls, LAMBDA c : c.op = "execute_order" /\ c.order.order_type = ot)

\* submissions of a parent order (anything but the watchdog's stop)
ParentCalls ==
    SelectSeq(calls, LAMBDA c : c.op = "execute_order" /\ c.order.order_type # "STOP_LOSS")

\* positions in the call log
IndexOf(op, ot) ==
    {k \in 1..Len(calls) : calls[k].op = op /\ calls[k].order.order_type = ot}

ReportsFill(r) == r.status = "FILLED" \/ r.filled_quantity > 0

\* C1: for an order that carries a stop_loss, whenever the engine returns a
\* result reporting a fill (status FILLED or filled_quantity > 0), a protective
\* stop exists: the provider attached a native bracket at placement, or the
\* engine has submitted a STOP_LOSS order; for every provider setting.
C1_StopAlwaysInPlace ==
    (pc = "done" /\ order.stop_loss # NoneV /\ ReportsFill(ret))
        => \E k \in 1..Len(calls) :
              \/ calls[k].bracket
              \/ (calls[k].op = "execute_order" /\ calls[k].order.order_type = "STOP_LOSS")

\* C3: without native brackets and with stop_loss set, when a poll of the loop
\* observes FILLED, exactly one STOP_LOSS order is submitted over the whole
\* execution, with stop_price = stop_loss and the reverse of the parent's side.
C3_ExactlyOneStop ==
    (provider # "alpaca" /\ Truthy(order.stop_loss) /\ sawFilled > 0 /\ Finished)
        => /\ Len(Submitted("STOP_LOSS")) = 1
           /\ Submitted("STOP_LOSS")[1].order.stop_price = order.stop_loss
           /\ Submitted("STOP_LOSS")[1].order.side # order.side

\* C4: when poll k of the loop is answered FILLED, smart_execute_order returns
\* that status; no later poll, no cancel_order and no MARKET order happen.
C4_FilledPollReturns ==
    sawFilled > 0
        => /\ pc = "done"
           /\ ret = parentOut /\ ret.status = "FILLED"
           /\ Len(CallsOf("get_order_status")) = sawFilled
           /\ Len(CallsOf("cancel_order")) = 0
           /\ Len(Submitted("MARKET")) = 0

C4_Witness ==
    /\ sawFilled = 3 /\ pc = "done" /\ ret.status = "FILLED"
    /\ Len(CallsOf("get_order_status")) = 3

\* the chase: one MARKET order like the parent, after the cancel, and the only
\* parent submission besides the LIMIT order
OneChase ==
    /\ Len(Submitted("MARKET")) = 1
    /\ LET m == Submitted("MARKET")[1].order IN
          /\ m.side = order.side /\ m.quantity = order.quantity
          /\ m.stop_loss = order.stop_loss /\ m.take_profit = order.take_profit
    /\ \A c \in IndexOf("cancel_order", "-"), m \in IndexOf("execute_order", "MARKET") : c < m
    /\ Len(ParentCalls) = 2
    /\ ParentCalls[1].order.order_type = "LIMIT"

\* C5 as stated: after 5 unfilled polls there are exactly 5 polls, then exactly
\* one cancel_order, then exactly one MARKET order with the parent's side,
\* quantity, stop_loss and take_profit, and no other parent order.
C5_FivePollsCancelChase ==
    (unfilled = PollAttempts /\ Finished)
        => /\ Len(CallsOf("get_order_status")) = PollAttempts
           /\ Len(CallsOf("cancel_order")) = 1
           /\ OneChase

\* C5 amended: after 5 unfilled polls exactly one cancel_order is called; when
\* it returns, exactly 5 polls were made and exactly one MARKET order like the
\* parent follows; when it raises, one more status check is made and the MARKET
\* order is submitted (once) only if that check returns a status other than
\* FILLED.
C5_TimeoutCancelChase ==
    (unfilled = PollAttempts /\ Finished)
        => /\ Len(CallsOf("cancel_order")) = 1
           /\ IF ~cancelOut.raised
              THEN Len(CallsOf("get_order_status")) = PollAttempts /\ OneChase
              ELSE /\ Len(CallsOf("get_order_status")) = PollAttempts + 1
                   /\ IF ~recheckOut.raised /\ recheckOut.status # "FILLED"
                      THEN OneChase
                      ELSE Len(Submitted("MARKET")) = 0 /\ Len(ParentCalls) = 1

C5_Witness ==
    /\ unfilled = PollAttempts /\ pc = "done" /\ ~cancelOut.raised
    /\ Len(Submitted("MARKET")) = 1 /\ Truthy(order.stop_loss)

\* the LIMIT placement failed: success=false, or the call raised
LimitFailed == result # NoRes /\ (result.raised \/ ~result.success)

\* C6: when get_orderbook fails or the LIMIT placement fails (success=false or
\* an exception), the order is rewritten to MARKET and submitted once, and the
\* MARKET order's result is what the caller gets.
C6_FallbackToMarket ==
    (order.execution_style = "PASSIVE" /\ Finished /\ (obFailed \/ LimitFailed))
        => /\ order.order_type = "MARKET"
           /\ Len(Submitted("MARKET")) = 1
           /\ (~parentOut.raised => pc = "done" /\ ret = parentOut)

\* cancel_order was called and failed: it raised or returned success=false
CancelFailed ==
    Len(CallsOf("cancel_order")) > 0 /\ (cancelOut.raised \/ ~cancelOut.success)

\* C7: when cancel_order fails (raises or returns an unsuccessful result) the
\* engine re-checks the order's status before going on; when that status is
\* FILLED it returns the fill and submits no MARKET chase.
C7_CancelFailureRechecks ==
    (CancelFailed /\ pc \in {"chase", "done", "raised"})
        => /\ Len(CallsOf("get_order_status")) = i + 1
           /\ (~recheckOut.raised /\ recheckOut.status = "FILLED")
                 => (pc = "done" /\ ret = recheckOut /\ Len(Submitted("MARKET")) = 0)

\* C8: when the watchdog's STOP_LOSS submission fails, the step hands on the
\* parent's own result (success=true) unchanged and nothing is raised.
C8_WatchdogFailureKeepsParent ==
    wd = "failed"
        => /\ pc # "raised"
           /\ ~stepOut.raised /\ stepOut = parentOut /\ stepOut.success
           /\ (pc = "done" => ret = parentOut)

C8_Witness ==
    /\ wd = "failed" /\ pc = "done" /\ ret.success /\ ret.filled_quantity > 0
    /\ Len(Submitted("STOP_LOSS")) > 0

TerminalStatus == {"FILLED", "CANCELED", "REJECTED", "ERROR"}

\* C9: for a PASSIVE order whose limit order entered the poll loop,
\* smart_execute_order ends after at most 5 status polls by returning a result
\* with a terminal status; it never returns a NEW/open order and no exception
\* leaves the poll loop.
C9_PollLoopTerminal ==
    (order.execution_style = "PASSIVE" /\ i > 0 /\ Finished)
        => /\ pc = "done"
           /\ Len(CallsOf("get_order_status")) <= PollAttempts
           /\ ret.status \in TerminalStatus

\* C34: the engine changes no field of the order it was handed other than
\* order_type; it changes order_type only to MARKET and only in a step that
\* falls back: the book fetch (failed, or the passive side empty) or a LIMIT
\* placement that came back unsuccessful.
C34_OnlyOrderTypeOnFallback ==
    [][ /\ order'.side = order.side /\ order'.quantity = order.quantity
        /\ order'.price = order.price /\ order'.stop_price = order.stop_price
        /\ order'.stop_loss = order.stop_loss
        /\ order'.take_profit = order.take_profit
        /\ order'.execution_style = order.execution_style
        /\ order'.time_in_force = order.time_in_force
        /\ order'.order_type # order.order_type
              => /\ order'.order_type = "MARKET"
                 /\ LET last == calls'[Len(calls')] IN
                    \/ /\ last.op = "get_orderbook"
                       /\ Len(calls') = Len(calls) + 1
                    \/ /\ last.op = "execute_order"
                       /\ last.order.order_type = "LIMIT"
                       /\ ~parentOut'.raised /\ ~parentOut'.success ]_vars

C34_Witness ==
    /\ pc = "done" /\ order.execution_style = "PASSIVE"
    /\ order.order_type = "MARKET" /\ order.stop_loss = 95
    /\ order.take_profit = 110 /\ order.quantity = OrderQty
    /\ ~obFailed /\ ~result.raised /\ ~result.success /\ result # NoRes
    /\ Len(Submitted("LIMIT")) = 1 /\ Len(Submitted("MARKET")) = 1

\* the limit order went to the exchange and the chase followed its cancel
ChasedAfterCancel ==
    /\ Len(Submitted("LIMIT")) = 1 /\ Len(CallsOf("cancel_order")) = 1
    /\ Len(Submitted("MARKET")) = 1

\* what the exchange last told about the limit order before the chase
LastLimitReport == IF cancelOut.raised THEN recheckOut ELSE cancelOut

\* C36: the MARKET chase is submitted only when the limit order is known not
\* to have filled, so the limit order's fill plus the chase never exceeds the
\* parent's quantity.
C36_ChaseOnlyWhenLimitUnfilled ==
    ChasedAfterCancel
        => /\ ~LastLimitReport.raised /\ LastLimitReport.success
           /\ LastLimitReport.status \in {"CANCELED", "REJECTED"}
           /\ LastLimitReport.filled_quantity + Submitted("MARKET")[1].order.quantity
                 <= order.quantity

\* the LIMIT placement went through
LimitPlaced ==
    /\ Len(Submitted("LIMIT")) = 1
    /\ result # NoRes /\ ~result.raised /\ result.success

\* C37: when smart_execute_order finishes, by returning or by raising, the
\* LIMIT order it placed has been observed FILLED or cancel_order has been
\* called for it.
C37_LimitNotLeftResting ==
    (Finished /\ LimitPlaced)
        => \/ result.status = "FILLED"
           \/ sawFilled > 0
           \/ Len(CallsOf("cancel_order")) > 0


(***************************************************************************)
(* Properties of the resilience layer                                      *)
(***************************************************************************)
\* C10: after failure_threshold consecutive wrapped calls that exhausted their
\* retries the breaker is OPEN, and a wrapped call begun then, before
\* recovery_timeout has elapsed, raises CircuitBreakerOpenException without
\* invoking the underlying function.
C10_TripRejectsNextCall ==
    /\ consec >= failure_threshold => cbState = "OPEN"
    /\ \A c \in Callers :
          afterTrip[c] => (lastEnd[c] = "rejected" /\ attempt[c] = 0 /\ cpc[c] = "idle")

C10_Witness ==
    \E c \in Callers :
        afterTrip[c] /\ lastEnd[c] = "rejected" /\ consec >= failure_threshold

\* C11: a wrapped call begun with the breaker OPEN and more than
\* recovery_timeout elapsed since the last recorded failure is admitted (the
\* underlying function is invoked), and the step in which such a call
\* succeeds leaves the breaker CLOSED with a failure count of 0.
C11_RecoveryAdmitsAndCloses ==
    /\ [](\A c \in Callers :
            openElapsed[c] => (lastEnd[c] # "rejected" /\ attempt[c] >= 1))
    /\ [][\A c \in Callers :
            (openElapsed[c] /\ lastEnd[c] = "none" /\ lastEnd'[c] = "ok")
                => (cbState' = "CLOSED" /\ failures' = 0)]_vars

C11_Witness ==
    \E c \in Callers :
        /\ openElapsed[c] /\ lastEnd[c] = "ok" /\ attempt[c] >= 1
        /\ cbState = "CLOSED" /\ failures = 0

\* C12: no invocation of the underlying function, retries included, starts
\* while the breaker is OPEN and recovery_timeout has not elapsed, whatever
\* the interleaving of the concurrent wrapped calls.
C12_CheckedBeforeEachAttempt ==
    \A c \in Callers : ~startedBlocked[c]

\* C13: a wrapped call records no failure while fewer than MAX_RETRIES of its
\* invocations raised a retryable error, and exactly one once MAX_RETRIES of
\* them did (never one per failed invocation); the step in which a call
\* succeeds after retryable failures leaves the failure count at 0.
C13_FailureRecordedOncePerExhaustedCall ==
    /\ [](\A c \in Callers :
            /\ nfail[c] < MAX_RETRIES => recorded[c] = 0
            /\ nfail[c] >= MAX_RETRIES => recorded[c] = 1
            /\ (lastEnd[c] = "ok" /\ nfail[c] >= 1) => recorded[c] = 0)
    /\ [][\A c \in Callers :
            (nfail[c] >= 1 /\ lastEnd[c] = "none" /\ lastEnd'[c] = "ok")
                => (failures' = 0 /\ recorded'[c] = 0)]_vars

C13_Witness ==
    \E c, d \in Callers :
        /\ lastEnd[c] = "ok" /\ nfail[c] = MAX_RETRIES - 1 /\ recorded[c] = 0
        /\ failures = 0
        /\ lastEnd[d] = "exhausted" /\ nfail[d] = MAX_RETRIES /\ recorded[d] = 1

\* C14: a wrapped call invokes the underlying function at most MAX_RETRIES
\* times, exactly MAX_RETRIES times when every invocation raised a retryable
\* error, and an invocation that raises ValueError, ImportError, SyntaxError
\* or CircuitBreakerOpenException ends the call with that error.
C14_AttemptsBounded ==
    \A c \in Callers :
        /\ attempt[c] <= MAX_RETRIES
        /\ (cpc[c] = "idle" /\ attempt[c] > 0 /\ nfail[c] = attempt[c])
              => attempt[c] = MAX_RETRIES
        /\ lastRaised[c] \in {"ValueError", "ImportError", "SyntaxError",
                              "CircuitBreakerOpenException"}
              => (cpc[c] = "idle" /\ propagated[c] = lastRaised[c])

C14_Witness ==
    \E c, d \in Callers :
        /\ cpc[c] = "idle" /\ lastRaised[c] = "ValueError"
        /\ propagated[c] = "ValueError" /\ attempt[c] = 2
        /\ cpc[d] = "idle" /\ nfail[d] = MAX_RETRIES /\ attempt[d] = MAX_RETRIES

\* C35: while the breaker is OPEN and recovery_timeout has not elapsed since
\* the last recorded failure, no step closes it or lowers its failure count,
\* whatever the interleaving of the wrapped calls.
C35_OpenStaysOpenUntilTimeout ==
    [][ (cbState = "OPEN" /\ now - last_failure_time <= recovery_timeout)
            => (cbState' = "OPEN" /\ failures' >= failures) ]_vars

\* C40: the breaker is OPEN exactly when failures >= failure_threshold;
\* record_success leaves it CLOSED with failures = 0; check changes neither
\* the state nor the failure count.
C40_OpenIffThresholdReached ==
    /\ [](cbState = "OPEN" <=> failures >= failure_threshold)
    /\ [][ \A c \in Callers :
             /\ (cpc[c] = "running" /\ cpc'[c] = "idle" /\ lastEnd'[c] = "ok")
                   => (cbState' = "CLOSED" /\ failures' = 0)
             /\ ((cpc[c] = "idle" /\ cpc'[c] = "running")
                    \/ (cpc' = cpc /\ now' = now /\ lastEnd'[c] = "rejected"))
                   => (cbState' = cbState /\ failures' = failures) ]_vars

C40_Witness ==
    \E c \in Callers :
        /\ openElapsed[c] /\ lastEnd[c] = "ok" /\ cpc[c] = "idle"
        /\ cbState = "CLOSED" /\ failures = 0
        /\ last_failure_time > 0 /\ now - last_failure_time > recovery_timeout


ShortOnSpot == lastSig.direction = "SHORT" /\ lastSig.instrument_type = "SPOT"

\* the SPOT LONG positions held on the symbol
SpotLongs ==
    {p \in rin.positions :
        p.symbol = Symbol /\ p.instrument_type = "SPOT" /\ p.side = "LONG"}

\* the last signal is directional and passes the confidence threshold
Confident == lastSig.direction \in {"LONG", "SHORT"} /\ lastSig.confidence >= 5

\* a position in the last signal's direction on its (symbol, instrument_type)
SameDirectionHeld ==
    \E p \in rin.positions :
        /\ p.symbol = Symbol /\ p.instrument_type = lastSig.instrument_type
        /\ p.side = lastSig.direction

\* a position on the symbol with the other instrument type or direction
OtherHeld ==
    \E p \in rin.positions :
        /\ p.symbol = Symbol
        /\ (p.instrument_type # lastSig.instrument_type \/ p.side # lastSig.direction)

\* the order of the last iteration opens a position: it is not the SELL
\* that reduces a LONG for a SHORT on SPOT with shorting disabled
EntryApproved ==
    lastOrder # NoApproved /\ ~(ShortOnSpot /\ ~rin.allow_shorting)

\* C15 as stated: a SHORT signal on a SPOT instrument yields no order when no
\* SPOT LONG position exists for the symbol, and otherwise at most a SELL
\* order whose quantity is at most the quantity of that LONG.
C15_NoNakedShort ==
    ShortOnSpot
        => /\ SpotLongs = {} => lastOrder = NoApproved
           /\ lastOrder # NoApproved
                 => (lastOrder.side = "SELL" /\ lastOrder.quantity <= SumQty(SpotLongs))

\* C15, amended: with settings.allow_shorting false, a SHORT signal on a SPOT
\* instrument yields no order when no SPOT LONG position exists for the
\* symbol, and otherwise (confidence at least 0.5) one SELL order of quantity
\* min(total SPOT LONG quantity, max_position_size); no iteration appends
\* more than one order.
C15_NoNakedShortWhenShortingDisabled ==
    /\ Len(approved_orders) <= nsig
    /\ (ShortOnSpot /\ ~rin.allow_shorting)
          => /\ SpotLongs = {} => lastOrder = NoApproved
             /\ lastOrder # NoApproved
                   => /\ lastOrder.side = "SELL"
                      /\ lastOrder.quantity <= SumQty(SpotLongs)
                      /\ lastOrder.quantity <= rin.max_position_size
             /\ (SpotLongs # {} /\ Confident)
                   => /\ lastOrder # NoApproved
                      /\ \/ lastOrder.quantity = SumQty(SpotLongs)
                         \/ lastOrder.quantity = rin.max_position_size

C15_Witness ==
    /\ ShortOnSpot /\ ~rin.allow_shorting /\ SpotLongs # {}
    /\ lastOrder.side = "SELL" /\ lastOrder.quantity = PosQty
    /\ rin.max_position_size > PosQty

\* C16: no entry order is approved for a signal of direction D when a
\* position of direction D is held on the same (symbol, instrument_type); a
\* position on the other instrument type or in the opposite direction does
\* not keep a confident signal with a positive size from being approved.
C16_NoPyramiding ==
    (lastSig.direction \in {"LONG", "SHORT"} /\ ~(ShortOnSpot /\ ~rin.allow_shorting))
        => /\ SameDirectionHeld => lastOrder = NoApproved
           /\ (~SameDirectionHeld /\ OtherHeld /\ Confident
               /\ PositionSize(lastSig, rin.method, rin.max_position_size,
                               rin.features.atr, rin.features.volatility_forecast,
                               OrZero(lastSig.entry_price)) > 0)
                 => /\ lastOrder # NoApproved
                    /\ lastOrder.instrument_type = lastSig.instrument_type
                    /\ lastOrder.side = IF lastSig.direction = "LONG"
                                        THEN "BUY" ELSE "SELL"

C16_Witness ==
    /\ Confident /\ SameDirectionHeld /\ lastOrder = NoApproved
    /\ ~(ShortOnSpot /\ ~rin.allow_shorting)
    /\ nsig = 2 /\ Len(approved_orders) = 1

\* C17: every entry order approved for a directional signal carries a
\* protective stop level (stop_loss or stop_price set), for every sizing
\* method and whether or not ATR is available.
C17_EntryOrdersCarryStop ==
    EntryApproved
        => (lastOrder.stop_loss # NoneV \/ lastOrder.stop_price # NoneV)

\* C18: with portfolio.daily_pnl < -max_daily_loss no signal is processed and
\* no order is approved; with daily_pnl equal to -max_daily_loss and a
\* portfolio at hand the node goes on to the loop over the signals.
C18_DailyLossHalt ==
    /\ [](rin.daily_pnl < -max_daily_loss
            => (approved_orders = <<>> /\ nsig = 0 /\ rpc # "loop"))
    /\ [][(rpc = "start" /\ rpc' # "start" /\ fetch' = "ok"
           /\ rin.daily_pnl = -max_daily_loss) => rpc' = "loop"]_vars

C18_Witness ==
    /\ rin.daily_pnl < -max_daily_loss /\ fetch = "ok" /\ rpc = "done"
    /\ approved_orders = <<>>

\* C19: every approved order has 0 < quantity <= max_position_size, and the
\* order approved for a signal with a (positive) suggested_quantity has
\* quantity min(suggested_quantity, max_position_size).
C19_QuantityWithinLimit ==
    /\ \A k \in 1..Len(approved_orders) :
          /\ 0 < approved_orders[k].quantity
          /\ approved_orders[k].quantity <= rin.max_position_size
    /\ (lastOrder # NoApproved /\ lastSig.suggested_quantity # NoneV
        /\ lastSig.suggested_quantity > 0)
          => lastOrder.quantity =
                IF lastSig.suggested_quantity <= rin.max_position_size
                THEN lastSig.suggested_quantity ELSE rin.max_position_size

\* sizing method VOLATILITY with ATR absent, or VOL_TARGET with the
\* volatility forecast absent
InputMissing ==
    \/ rin.method = "VOLATILITY" /\ rin.features.atr = NoneV
    \/ rin.method = "VOL_TARGET" /\ rin.features.volatility_forecast = NoneV

\* the last signal gets as far as the sizing of an entry order
ReachesSizing ==
    Confident /\ ~(ShortOnSpot /\ ~rin.allow_shorting) /\ ~SameDirectionHeld

\* the entry order of the last iteration has the FIXED size
FixedSizeApproved ==
    /\ lastOrder # NoApproved
    /\ lastOrder.quantity = IF rin.max_position_size <= FixedDefault
                            THEN rin.max_position_size ELSE FixedDefault

\* C20 as stated: with VOLATILITY and ATR absent, or VOL_TARGET and the
\* forecast absent, the entry order is approved with the FIXED size
\* min(max_position_size, 0.01).
C20_MissingInputGivesFixedSize ==
    (InputMissing /\ ReachesSizing) => FixedSizeApproved

\* C20, amended: the same for a signal without a positive suggested_quantity;
\* a positive suggested_quantity takes precedence over the fallback and the
\* order has min(suggested_quantity, max_position_size).
C20_MissingInputGivesFixedSizeUnlessSuggested ==
    (InputMissing /\ ReachesSizing)
        => IF lastSig.suggested_quantity # NoneV /\ lastSig.suggested_quantity > 0
           THEN /\ lastOrder # NoApproved
                /\ lastOrder.quantity =
                      IF lastSig.suggested_quantity <= rin.max_position_size
                      THEN lastSig.suggested_quantity ELSE rin.max_position_size
           ELSE FixedSizeApproved

C20_Witness ==
    /\ InputMissing /\ ReachesSizing /\ lastSig.suggested_quantity = NoneV
    /\ FixedSizeApproved /\ lastOrder.quantity = rin.max_position_size
    /\ rin.max_position_size < FixedDefault

\* sizing method VOLATILITY with ATR and the signal's entry price present
\* and positive, for a signal that gets as far as the sizing
VolatilitySized ==
    /\ rin.method = "VOLATILITY" /\ ReachesSizing
    /\ rin.features.atr # NoneV /\ rin.features.atr > 0
    /\ lastSig.entry_price # NoneV /\ lastSig.entry_price > 0

\* min(equity * risk_per_trade_percent / (ATR * atr_stop_multiplier),
\*     max_position_size, max_leverage * equity / entry), in thousandths
VolatilityQuantity ==
    LET by_risk == (QtyScale * (Equity \div RiskPerTradeDen))
                       \div (rin.features.atr * atr_stop_multiplier)
        by_leverage == (QtyScale * max_leverage * Equity) \div lastSig.entry_price
        m == IF by_risk <= rin.max_position_size
             THEN by_risk ELSE rin.max_position_size
    IN  IF m <= by_leverage THEN m ELSE by_leverage

\* the approved order has the VOLATILITY quantity and the ATR stop; with
\* equity 10000, entry 100, ATR 2 and no binding cap that is 25 and 96 / 104
VolatilityOrderApproved ==
    /\ lastOrder # NoApproved
    /\ lastOrder.quantity = VolatilityQuantity
    /\ lastOrder.stop_price =
          IF lastSig.direction = "LONG"
          THEN lastSig.entry_price - rin.features.atr * atr_stop_multiplier
          ELSE lastSig.entry_price + rin.features.atr * atr_stop_multiplier
    /\ (Equity = 10000 /\ QtyScale = 1000 /\ lastSig.entry_price = 100
        /\ rin.features.atr = 2 /\ rin.max_position_size >= 25 * QtyScale)
          => /\ lastOrder.quantity = 25 * QtyScale
             /\ lastOrder.stop_price = IF lastSig.direction = "LONG" THEN 96 ELSE 104

\* C21 as stated: with sizing method VOLATILITY, ATR > 0 and entry price > 0
\* the approved quantity is min(equity * risk% / (ATR * multiplier),
\* max_position_size, max_leverage * equity / entry) and stop_price is
\* entry -/+ ATR * multiplier (25 and 96 / 104 in the worked example).
C21_VolatilitySizing ==
    VolatilitySized => VolatilityOrderApproved

\* C21, amended: the same for a signal without a positive suggested_quantity;
\* with one the quantity is min(suggested_quantity, max_position_size) and
\* the stop_price is still the ATR stop.
C21_VolatilitySizingUnlessSuggested ==
    VolatilitySized
        => IF lastSig.suggested_quantity # NoneV /\ lastSig.suggested_quantity > 0
           THEN /\ lastOrder # NoApproved
                /\ lastOrder.quantity =
                      IF lastSig.suggested_quantity <= rin.max_position_size
                      THEN lastSig.suggested_quantity ELSE rin.max_position_size
                /\ lastOrder.stop_price =
                      IF lastSig.direction = "LONG"
                      THEN lastSig.entry_price - rin.features.atr * atr_stop_multiplier
                      ELSE lastSig.entry_price + rin.features.atr * atr_stop_multiplier
           ELSE VolatilityOrderApproved

C21_Witness ==
    /\ VolatilitySized /\ lastSig.suggested_quantity = NoneV
    /\ lastSig.direction = "SHORT" /\ lastSig.entry_price = 100
    /\ lastOrder.quantity = 25 * QtyScale /\ lastOrder.stop_price = 104

\* the SELL orders approved on SPOT for the symbol, by their place in the list
SpotSells ==
    {[k |-> k, quantity |-> approved_orders[k].quantity] :
        k \in {j \in 1..Len(approved_orders) :
                 /\ approved_orders[j].side = "SELL"
                 /\ approved_orders[j].instrument_type = "SPOT"
                 /\ approved_orders[j].symbol = Symbol}}

\* C38: with shorting disabled, the SELL orders approved on SPOT in one call
\* add up to no more than the SPOT LONG quantity held on the symbol.
C38_SpotSellsWithinHolding ==
    ~rin.allow_shorting => SumQty(SpotSells) <= SumQty(SpotLongs)


(***************************************************************************)
(* Properties of the hedge agent                                           *)
(***************************************************************************)
\* C22: given a portfolio whose SPOT LONG quantity q differs from its FUTURE
\* SHORT quantity h by more than 0.0001, hedge_agent_node returns the
\* incoming signals followed by one hedge signal (FUTURE, SHORT when q > h,
\* LONG when q < h, suggested_quantity |q - h|); otherwise it returns the
\* incoming signals unchanged.
C22_HedgeSignalAppended ==
    (hout # "pending" /\ hout # "idle" /\ hin.has_portfolio)
        => LET q == CurrentSpotQty(hin)
               h == CurrentHedgeQty(hin)
           IN  /\ hout = "returned"
               /\ IF q - h > HedgeThreshold \/ h - q > HedgeThreshold
                  THEN /\ Len(hret) = Len(hin.signals) + 1
                       /\ SubSeq(hret, 1, Len(hin.signals)) = hin.signals
                       /\ hret[Len(hret)].strategy = "hedge"
                       /\ hret[Len(hret)].instrument_type = "FUTURE"
                       /\ hret[Len(hret)].direction =
                             IF q > h THEN "SHORT" ELSE "LONG"
                       /\ hret[Len(hret)].suggested_quantity =
                             IF q > h THEN q - h ELSE h - q
                  ELSE hret = hin.signals

(***************************************************************************)
(* Properties of the momentum strategy                                     *)
(***************************************************************************)
\* C23: across consecutive iterations of the trading loop, the momentum
\* node evaluates iteration t+1 in the state given by the direction it
\* emitted at iteration t, and after LONG (SHORT) it applies the maintenance
\* thresholds: a still-crossed EMA pair with ADX between the maintenance and
\* the entry threshold and RSI inside the maintenance band keeps the
\* direction.
C23_StateIsLastEmittedDirection ==
    (mpc = "returned" /\ mlast # "none")
        => /\ CurrentDirection(mprev) = mlast
           /\ (/\ mlast = "LONG"
               /\ Truthy(mfeat.ema_9) /\ Truthy(mfeat.ema_50)
               /\ mfeat.ema_9 > mfeat.ema_50
               /\ mfeat.adx # NoneV /\ mfeat.adx >= MAINTAIN_ADX_THRESHOLD
               /\ mfeat.rsi # NoneV /\ mfeat.rsi > MAINTAIN_RSI_LONG_MIN
               /\ mfeat.rsi < MAINTAIN_RSI_LONG_MAX)
              => msig.direction = "LONG"
           /\ (/\ mlast = "SHORT"
               /\ Truthy(mfeat.ema_9) /\ Truthy(mfeat.ema_50)
               /\ mfeat.ema_9 < mfeat.ema_50
               /\ mfeat.adx # NoneV /\ mfeat.adx >= MAINTAIN_ADX_THRESHOLD
               /\ mfeat.rsi # NoneV /\ mfeat.rsi > MAINTAIN_RSI_SHORT_MIN
               /\ mfeat.rsi < MAINTAIN_RSI_SHORT_MAX)
              => msig.direction = "SHORT"

\* C24: from the FLAT state the momentum node emits LONG (SHORT) only when
\* ADX is available and at least the entry threshold, RSI is available and
\* inside the entry band, EMA9 and EMA50 are crossed in the signal's
\* direction with the price beyond EMA9, and the price is not on the wrong
\* side of EMA200; otherwise it emits NEUTRAL.
C24_EntryNeedsAllFilters ==
    (mpc = "returned" /\ CurrentDirection(mprev) = "NEUTRAL")
        => /\ msig.direction = "LONG"
              => /\ mfeat.adx # NoneV /\ mfeat.adx >= ENTRY_ADX_THRESHOLD
                 /\ mfeat.rsi # NoneV
                 /\ mfeat.rsi >= ENTRY_RSI_LONG_MIN
                 /\ mfeat.rsi <= ENTRY_RSI_LONG_MAX
                 /\ mfeat.ema_9 # NoneV /\ mfeat.ema_50 # NoneV
                 /\ mfeat.ema_9 > mfeat.ema_50 /\ mfeat.price > mfeat.ema_9
                 /\ (mfeat.ema_200 = NoneV \/ mfeat.price > mfeat.ema_200)
           /\ msig.direction = "SHORT"
              => /\ mfeat.adx # NoneV /\ mfeat.adx >= ENTRY_ADX_THRESHOLD
                 /\ mfeat.rsi # NoneV
                 /\ mfeat.rsi >= ENTRY_RSI_SHORT_MIN
                 /\ mfeat.rsi <= ENTRY_RSI_SHORT_MAX
                 /\ mfeat.ema_9 # NoneV /\ mfeat.ema_50 # NoneV
                 /\ mfeat.ema_9 < mfeat.ema_50 /\ mfeat.price < mfeat.ema_9
                 /\ (mfeat.ema_200 = NoneV \/ mfeat.price < mfeat.ema_200)

\* C27: both signal generators emit NEUTRAL with confidence 0 whenever RSI
\* or the Bollinger bands are absent from the features, whatever the other
\* features and the previous signal are.
C27_NeutralWithoutRsiOrBands ==
    /\ (mpc = "returned"
            /\ (mfeat.rsi = NoneV \/ mfeat.bollinger_upper = NoneV))
          => (msig.direction = "NEUTRAL" /\ msig.confidence = 0)
    /\ (mrpc = "returned" /\ (mrin.rsi = NoneV \/ ~mrin.has_bands))
          => (mrout.direction = "NEUTRAL" /\ mrout.confidence = 0)

\* the maintenance conditions of a held direction, from the features; they
\* are stated for features whose ADX and RSI have been computed
Measured == mfeat.adx # NoneV /\ mfeat.rsi # NoneV

MaintainLong ==
    /\ mfeat.ema_9 # NoneV /\ mfeat.ema_50 # NoneV
    /\ mfeat.adx >= 20 /\ mfeat.ema_9 > mfeat.ema_50
    /\ 45 < mfeat.rsi /\ mfeat.rsi < 80

MaintainShort ==
    /\ mfeat.ema_9 # NoneV /\ mfeat.ema_50 # NoneV
    /\ mfeat.adx >= 20 /\ mfeat.ema_9 < mfeat.ema_50
    /\ 20 < mfeat.rsi /\ mfeat.rsi < 55

\* C33: with previous signal LONG the momentum node re-emits LONG when
\* ADX >= 20, EMA9 > EMA50 and 45 < RSI < 80, and emits NEUTRAL when one of
\* them fails; with previous signal SHORT it re-emits SHORT when ADX >= 20,
\* EMA9 < EMA50 and 20 < RSI < 55, and NEUTRAL otherwise.  Values between
\* the maintenance and the entry thresholds keep the direction.
C33_MaintainUnderRelaxedThresholds ==
    (mpc = "returned" /\ Measured)
        => /\ mprev.direction = "LONG"
              => msig.direction = IF MaintainLong THEN "LONG" ELSE "NEUTRAL"
           /\ mprev.direction = "SHORT"
              => msig.direction = IF MaintainShort THEN "SHORT" ELSE "NEUTRAL"

\* C39: the momentum node never reverses in one step: after LONG it emits
\* LONG or NEUTRAL, after SHORT it emits SHORT or NEUTRAL.
C39_NoReversalInOneStep ==
    mpc = "returned"
        => /\ mprev.direction = "LONG" => msig.direction \in {"LONG", "NEUTRAL"}
           /\ mprev.direction = "SHORT" => msig.direction \in {"SHORT", "NEUTRAL"}

C39_Witness ==
    /\ mpc = "returned" /\ mprev.direction = "LONG"
    /\ mfeat.ema_9 # NoneV /\ mfeat.ema_50 # NoneV
    /\ mfeat.ema_9 < mfeat.ema_50 /\ mfeat.price < mfeat.ema_9
    /\ mfeat.adx = 30 /\ mfeat.rsi = 40 /\ mfeat.ema_200 = NoneV
    /\ msig.direction = "NEUTRAL" /\ msig.reasoning = "EXIT LONG"

\* the graph raised in the iteration that is ending
GraphRaised == mpc \in {"ValidationError", "graph_raised"}

\* C31: an exception raised by the graph in any iteration, the first one
\* included, is caught inside that iteration and the loop goes on to the next
\* iteration; the loop stops only on the iteration limit, the time limit or an
\* external interruption.
C31_GraphErrorsNeverStopTheLoop ==
    /\ [](lstop \in {"running", "max_iterations", "time_limit", "KeyboardInterrupt"})
    /\ [][ GraphRaised => (mpc' = "loop" /\ lstop' = "running"
                            /\ miter' = miter) ]_vars


(***************************************************************************)
(* Properties of the mean-reversion strategy                               *)
(***************************************************************************)
\* the confirmed-reversal setups, from the inputs of the node
LongReversal ==
    /\ mrin.nklines >= bollinger_period + 1
    /\ mrin.has_bands /\ mrin.rsi # NoneV
    /\ mrin.prev_close < mrin.prev_lower
    /\ mrin.price > BandLower
    /\ mrin.rsi < rsi_oversold + 10

ShortReversal ==
    /\ mrin.nklines >= bollinger_period + 1
    /\ mrin.has_bands /\ mrin.rsi # NoneV
    /\ mrin.prev_close > mrin.prev_upper
    /\ mrin.price < BandUpper
    /\ mrin.rsi > rsi_overbought - 10

\* C25: with at least bollinger_period + 1 klines, the previous close below
\* the previous lower band, the price above the current lower band, RSI
\* below rsi_oversold + 10 and OFI > 0, the node emits a LONG signal with
\* confidence at least 0.8.
C25_ConfirmedLongReversal ==
    (mrpc \in {"returned", "ValidationError"} /\ LongReversal
        /\ mrin.ofi # NoneV /\ mrin.ofi > 0)
        => /\ mrpc = "returned"
           /\ mrout.key = "signals"
           /\ mrout.direction = "LONG"
           /\ mrout.confidence >= 80

C25_Witness ==
    /\ mrpc = "returned" /\ LongReversal /\ mrin.ofi = 5 /\ mrin.rsi = 35
    /\ mrin.price = 9100
    /\ mrout.direction = "LONG" /\ mrout.confidence = 90
    /\ mrout.stop_loss = 8918

\* C26: in the confirmed-reversal setup with opposing order flow (long
\* setup with OFI < 0, short setup with OFI > 0) the emitted signal is
\* NEUTRAL and its reasoning is the rejection of the reversal, not the
\* in-range or waiting-for-confirmation text.
C26_RejectionIsExplicit ==
    /\ (mrpc \in {"returned", "ValidationError"} /\ LongReversal
            /\ mrin.ofi # NoneV /\ mrin.ofi < 0)
          => /\ mrpc = "returned"
             /\ mrout.direction = "NEUTRAL"
             /\ mrout.reasoning = "Long Rejected"
    /\ (mrpc \in {"returned", "ValidationError"} /\ ShortReversal
            /\ mrin.ofi # NoneV /\ mrin.ofi > 0)
          => /\ mrpc = "returned"
             /\ mrout.direction = "NEUTRAL"
             /\ mrout.reasoning = "Short Rejected"

(***************************************************************************)
(* Properties of the feature engine                                        *)
(***************************************************************************)
\* C28: after any sequence of feature-engine updates every indicator that
\* is present was computed from a window of its full warm-up length:
\* EMA-200 from 200 closes, realized volatility from volatility_lookback
\* prices, ATR from atr_period bars, RSI from period + 1 closes, Bollinger
\* from period prices, the OFI average from 5 OFI values.
C28_PresentMeansFullWindow ==
    LET Full(x, n) == x = <<>> \/ x[1] >= n
    IN  /\ Full(ffeat.ema_200, 200)
        /\ Full(engine.ema_200, 200)
        /\ Full(ffeat.realized_volatility, volatility_lookback)
        /\ Full(ffeat.atr, atr_period)
        /\ Full(ffeat.rsi, rsi_period + 1)
        /\ Full(ffeat.bollinger, bollinger_period)
        /\ Full(engine.ofi_sma, 5)

\* the snapshots of the worked example
Snapshot1 == Book(50000, 1, 50010, 1)

Snapshot2 == Book(50005, 1, 50010, 1)

Snapshot3 == Book(50005, 1, 50008, 1)

\* C29: over consecutive top-of-book snapshots the OFI of a tick is absent
\* when there is no previous snapshot, and otherwise is the bid
\* contribution (current bid quantity if the best bid rose, minus the
\* previous bid quantity if it fell, the quantity change if unchanged)
\* minus the ask contribution (the same with a falling best ask as the
\* improvement); the snapshots (50000, 50010), (50005, 50010),
\* (50005, 50008) with unit quantities give absent, +1, -1.
C29_OfiOfConsecutiveSnapshots ==
    (fin.op = "tick" /\ fin.book.kind = "book")
        => LET cur == fin.book
               prev == fin.prev
               bid == IF cur.bid_p > prev.bid_p THEN cur.bid_q
                      ELSE IF cur.bid_p < prev.bid_p THEN 0 - prev.bid_q
                      ELSE cur.bid_q - prev.bid_q
               ask == IF cur.ask_p < prev.ask_p THEN cur.ask_q
                      ELSE IF cur.ask_p > prev.ask_p THEN 0 - prev.ask_q
                      ELSE cur.ask_q - prev.ask_q
           IN  /\ prev.kind = "none" => ffeat.ofi = <<>>
               /\ prev.kind = "book" => ffeat.ofi = <<bid - ask>>
               /\ (prev = Snapshot1 /\ cur = Snapshot2) => ffeat.ofi = <<1>>
               /\ (prev = Snapshot2 /\ cur = Snapshot3) => ffeat.ofi = <<-1>>

C29_Witness ==
    /\ fsteps = 3 /\ fin.op = "tick"
    /\ fin.prev = Snapshot2 /\ fin.book = Snapshot3
    /\ engine.prev_orderbook = Snapshot3
    /\ ffeat.ofi = <<-1>>

(***************************************************************************)
(* Properties of execution_agent_node                                      *)
(***************************************************************************)
\* C30: execution_agent_node returns one ExecutionResult per approved order,
\* in the orders' order; an exception while executing order i becomes a
\* result with success false and status ERROR for that order, the orders
\* after it are still executed, and the executor of order i+1 is not called
\* before order i has its result.
C30_OneResultPerOrder ==
    /\ bpc = "returned"
          => /\ Len(execution_results) = Len(approved)
             /\ Len(blog) = Len(approved)
    /\ \A k \in 1..Len(execution_results) :
          IF bout[k].raised
          THEN /\ ~execution_results[k].raised
               /\ ~execution_results[k].success
               /\ execution_results[k].status = "ERROR"
          ELSE execution_results[k] = bout[k]
    /\ \A k \in 1..Len(blog) :
          /\ blog[k].index = k
          /\ blog[k].call = Executor(approved[k])
    /\ Len(blog) <= Len(execution_results) + 1

C30_Witness ==
    /\ bpc = "returned" /\ Len(approved) = 3
    /\ bout[2].raised
    /\ execution_results[2].status = "ERROR"
    /\ execution_results[3].success
    /\ Len(blog) = 3

(***************************************************************************)
(* Properties of the StateManager                                          *)
(***************************************************************************)
\* the target file as the directory shows it: its inode and its text
Target == <<paths["target"],
            IF paths["target"] = 0 THEN <<>> ELSE fs[paths["target"]]>>

\* C32: a load_state that runs while save_state saves the same key returns a
\* state the target held complete during the load (the previous one or the
\* new one, None when there was no file), never a partial one; a save_state
\* that returns False leaves the target as it was when the call began, and
\* one that returns True leaves the new state in it.
C32_AtomicSave ==
    /\ []((lpc = "ready" /\ lret # <<>>) => lret[1] \in lseen)
    /\ [][ (spc # "ready" \/ saves' # saves) /\ spc' = "ready"
              => /\ sret' = "False" => Target' = sprev' /\ Target' = Target
                 /\ sret' = "True"
                       => /\ paths'["target"] # 0
                          /\ fs'[paths'["target"]]
                               = [k \in 1..ChunkCount |-> sdata] ]_vars

C32_Witness ==
    /\ lpc = "ready" /\ lret = <<sdata>> /\ sret = "True"
    /\ Cardinality(lseen) = 2 /\ sprev[1] # 0 /\ sprev[2][1] # sdata

====
